---------------------------- MODULE Spec2Model ----------------------------
(***************************************************************************)
(* A model of skt/executable.py: the state store (load_config, save_state),*)
(* the junit stage harness, the stages cmd_merge .. cmd_cleanup, cmd_all   *)
(* and main.  The collaborators (KernelTree, KernelBuilder, publisher,     *)
(* runner, reporter) are black boxes: what they return or raise is chosen  *)
(* nondeterministically.                                                   *)
(***************************************************************************)
EXTENDS Integers, Sequences, FiniteSets, TLC

(***************************************************************************)
(* Values.  Every Python value a State key can hold is encoded as a string *)
(* so that values of different Python types stay comparable: None, the     *)
(* booleans, the integers 0..3 and plain strings are all distinct.         *)
(***************************************************************************)
None == "<None>"
PyFalse == "<False>"
PyTrue == "<True>"
Int0 == "#0"
Int1 == "#1"
Int2 == "#2"
Int3 == "#3"
Empty == ""

\* Python truthiness of a value, as used by "if not cfg.get(name)".
Falsy(v) == v \in {None, PyFalse, Int0, Empty}

\* str(value) as ConfigParser.write puts it in the file; what is read back
\* from the file is always a string.
Str(v) ==
    CASE v = Int0 -> "0"
      [] v = Int1 -> "1"
      [] v = Int2 -> "2"
      [] v = Int3 -> "3"
      [] v = PyTrue -> "True"
      [] v = PyFalse -> "False"
      [] v = None -> "None"
      [] OTHER -> v

\* The integer behind an encoded result code and back.
IntVal(n) ==
    CASE n = 0 -> Int0
      [] n = 1 -> Int1
      [] n = 2 -> Int2
      [] OTHER -> Int3

\* os.path.abspath(os.path.expanduser(path)): a relative path gets the
\* working directory in front, an absolute path is kept.
full_path(v) ==
    CASE v = "wd" -> "/cwd/wd"
      [] v = "t.tar.gz" -> "/cwd/t.tar.gz"
      [] v = "h0.tar.gz" -> "/cwd/h0.tar.gz"
      [] v = "h1.tar.gz" -> "/cwd/h1.tar.gz"
      [] v = "h2.tar.gz" -> "/cwd/h2.tar.gz"
      [] v = "h3.tar.gz" -> "/cwd/h3.tar.gz"
      [] v = "h4.tar.gz" -> "/cwd/h4.tar.gz"
      [] v = "h5.tar.gz" -> "/cwd/h5.tar.gz"
      [] v = "h6.tar.gz" -> "/cwd/h6.tar.gz"
      [] v = "h7.tar.gz" -> "/cwd/h7.tar.gz"
      [] v = "h8.tar.gz" -> "/cwd/h8.tar.gz"
      [] v = "h9.tar.gz" -> "/cwd/h9.tar.gz"
      [] v = "h0.csv" -> "/cwd/h0.csv"
      [] v = "h1.csv" -> "/cwd/h1.csv"
      [] v = "h2.csv" -> "/cwd/h2.csv"
      [] v = "h3.csv" -> "/cwd/h3.csv"
      [] v = "h4.csv" -> "/cwd/h4.csv"
      [] v = "h5.csv" -> "/cwd/h5.csv"
      [] v = "h6.csv" -> "/cwd/h6.csv"
      [] v = "h7.csv" -> "/cwd/h7.csv"
      [] v = "h8.csv" -> "/cwd/h8.csv"
      [] v = "h9.csv" -> "/cwd/h9.csv"
      [] v = "h0.csv.config" -> "/cwd/h0.csv.config"
      [] v = "h1.csv.config" -> "/cwd/h1.csv.config"
      [] v = "h2.csv.config" -> "/cwd/h2.csv.config"
      [] v = "h3.csv.config" -> "/cwd/h3.csv.config"
      [] v = "h4.csv.config" -> "/cwd/h4.csv.config"
      [] v = "h5.csv.config" -> "/cwd/h5.csv.config"
      [] v = "h6.csv.config" -> "/cwd/h6.csv.config"
      [] v = "h7.csv.config" -> "/cwd/h7.csv.config"
      [] v = "h8.csv.config" -> "/cwd/h8.csv.config"
      [] v = "h9.csv.config" -> "/cwd/h9.csv.config"
      [] v = "None.config" -> "/cwd/None.config"
      [] OTHER -> v

(***************************************************************************)
(* Bounds of the model.                                                    *)
(***************************************************************************)
MaxRefs == 2        \* merge-refs of one Merge
MaxPatches == 2     \* local patches of one Merge
MaxJobs == 2        \* jobs one runner submits
MaxItems == 3       \* entries of a hand-written state section
MaxSaves == 2       \* save_state calls a caller makes in a row
MaxRuns == 2        \* invocations of one stage in a row

(***************************************************************************)
(* Keys of the State mapping.  The indexed families are written with      *)
(* '%02d' % idx (merge entries) and '%s' % idx (jobid).                    *)
(***************************************************************************)
FamilyNames == {"mergerepo", "mergehead", "localpatch", "patchwork", "jobid"}

FamilyKeySeq(fam) ==
    CASE fam = "mergerepo" ->
             <<"mergerepo_00", "mergerepo_01", "mergerepo_02", "mergerepo_03">>
      [] fam = "mergehead" ->
             <<"mergehead_00", "mergehead_01", "mergehead_02", "mergehead_03">>
      [] fam = "localpatch" ->
             <<"localpatch_00", "localpatch_01", "localpatch_02", "localpatch_03">>
      [] fam = "patchwork" ->
             <<"patchwork_00", "patchwork_01", "patchwork_02", "patchwork_03">>
      [] fam = "jobid" ->
             <<"jobid_0", "jobid_1", "jobid_2", "jobid_3">>

\* 'prefix_%02d' % idx
FamilyKey(fam, idx) == FamilyKeySeq(fam)[idx + 1]

FamilyKeys(fam) == {FamilyKeySeq(fam)[i] : i \in 1..4}

\* name.startswith(fam + "_")
StartsWith(name, fam) == name \in FamilyKeys(fam)

ScalarKeys ==
    {"state", "junit", "test", "wait", "wipe", "workdir", "baserepo",
     "publisher", "runner", "reporter",
     "mergelog", "basehead", "commitdate", "buildinfo", "buildhead", "uid",
     "buildlog", "tarpkg", "buildconf", "krelease", "kernel_arch",
     "buildurl", "cfgurl", "infourl", "baseretcode", "retcode"}

Keys == ScalarKeys \cup UNION {FamilyKeys(fam) : fam \in FamilyNames}

(***************************************************************************)
(* ConfigParser sections: an ordered list of <<option, value>> entries.    *)
(***************************************************************************)
HasOption(items, k) == \E i \in 1..Len(items) : items[i][1] = k

GetOption(items, k) ==
    IF HasOption(items, k)
    THEN items[CHOOSE i \in 1..Len(items) : items[i][1] = k][2]
    ELSE None

\* An option put last in the section, whether it has it or not.
AppendOption(items, k, v) == Append(items, <<k, v>>)

\* config.set(section, k, v): an existing option keeps its place, a new one
\* goes last.
SetOption(items, k, v) ==
    IF HasOption(items, k)
    THEN [i \in 1..Len(items) |-> IF items[i][1] = k THEN <<k, v>> ELSE items[i]]
    ELSE Append(items, <<k, v>>)

\* The file as config.write(fileh) leaves it: every section of the parser,
\* every value through str().
WriteFile(parser) ==
    [parser EXCEPT
       !.state = [i \in 1..Len(parser.state) |->
                     <<parser.state[i][1], Str(parser.state[i][2])>>],
       !.config = [i \in 1..Len(parser.config) |->
                     <<parser.config[i][1], Str(parser.config[i][2])>>]]


(***************************************************************************)
(* The state.                                                              *)
(*   disk[f]   the rc file f: its sections as written on disk;             *)
(*   proc[p]   the process in slot p: its command line (argv), its State   *)
(*             (cfg and the derived collections), its ConfigParser object  *)
(*             (parser), the global retcode, the junit records, its        *)
(*             position (pc) and, once it has ended, its exit status; what  *)
(*             an observer has seen of it (log, hist, in seen the fields   *)
(*             each stage found in the State when it started, in wrote the *)
(*             entries it has put in the 'state' section) and              *)
(*             the update mapping of the save_state call a caller made     *)
(*             last (upd);                                                 *)
(*   env       what the collaborators do, when that is scripted ahead, and *)
(*             the options every command line of a scripted run is given.  *)
(***************************************************************************)
VARIABLES proc, disk, env

vars == <<proc, disk, env>>

ProcIds == {1, 2}
FileIds == {1, 2}

(***************************************************************************)
(* save_state(cfg, state): merge the updates into cfg, then, if cfg has    *)
(* 'state' set, put every update that is not None in the 'state' section   *)
(* of the parser and rewrite the file.  st is <<process, file>> as a       *)
(* record [m, file]; upd is the update mapping as a list of entries.       *)
(***************************************************************************)
UpdateCfg(cfg, upd) ==
    [k \in Keys |-> IF HasOption(upd, k) THEN GetOption(upd, k) ELSE cfg[k]]

\* Every update put in the section, the null ones too.
RECURSIVE SetAll(_, _)
SetAll(items, upd) ==
    IF upd = <<>> THEN items
    ELSE SetAll(SetOption(items, Head(upd)[1], Head(upd)[2]), Tail(upd))

\* Lines 69-72: the updates that are not None put in the section.
RECURSIVE SetNotNone(_, _)
SetNotNone(items, upd) ==
    IF upd = <<>> THEN items
    ELSE LET k == Head(upd)[1]
             v == Head(upd)[2]
         IN  SetNotNone(IF v # None THEN SetOption(items, k, v) ELSE items,
                        Tail(upd))

\* The entries a call puts in the 'state' section, as the file shows them.
Persisted(upd) ==
    LET sel == SelectSeq(upd, LAMBDA e : e[2] # None)
    IN  [i \in 1..Len(sel) |-> <<sel[i][1], Str(sel[i][2])>>]

\* The section is read from the file again before it is updated and
\* written.
save_state_reread(st, upd) ==
    LET cfg1 == UpdateCfg(st.m.cfg, upd)
        parser1 == [st.m.parser EXCEPT !.hasState = TRUE,
                                       !.state = SetNotNone(st.file.state, upd)]
    IN  IF Falsy(cfg1["state"])
        THEN [st EXCEPT !.m.cfg = cfg1]
        ELSE [st EXCEPT !.m.cfg = cfg1,
                        !.m.parser = parser1,
                        !.m.wrote = @ \o Persisted(upd),
                        !.file = WriteFile(parser1)]

\* Lines 50-75.
save_state(st, upd) ==
    LET cfg1 == UpdateCfg(st.m.cfg, upd)
        parser1 == [st.m.parser EXCEPT !.hasState = TRUE,
                                       !.state = SetNotNone(@, upd)]
    IN  IF Falsy(cfg1["state"])
        THEN [st EXCEPT !.m.cfg = cfg1]
        ELSE [st EXCEPT !.m.cfg = cfg1,
                        !.m.parser = parser1,
                        !.m.wrote = @ \o Persisted(upd),
                        !.file = WriteFile(parser1)]

(***************************************************************************)
(* load_config(args).  argv is the parsed command line: opts holds every   *)
(* option's value (its default when it was not given), given the options   *)
(* that were given.  file is the rc file as config.read finds it and tmp   *)
(* the directory tempfile.mkdtemp() makes if it is called.                 *)
(***************************************************************************)
\* The 'state' section loop, lines 791-814: acc holds cfg and the derived
\* collections.
RECURSIVE LoadStateItems(_, _)
LoadStateItems(items, acc) ==
    IF items = <<>> THEN acc
    ELSE LET name == Head(items)[1]
             value == Head(items)[2]
             acc1 ==
               IF ~Falsy(acc.cfg[name]) THEN acc
               ELSE LET a ==
                          CASE StartsWith(name, "jobid") ->
                                 [acc EXCEPT !.jobs = @ \cup {value}]
                            [] StartsWith(name, "mergerepo") ->
                                 [acc EXCEPT !.mergerepos = Append(@, value)]
                            [] StartsWith(name, "mergehead") ->
                                 [acc EXCEPT !.mergeheads = Append(@, value)]
                            [] StartsWith(name, "localpatch") ->
                                 [acc EXCEPT !.localpatches = Append(@, value)]
                            [] StartsWith(name, "patchwork") ->
                                 [acc EXCEPT !.patchworks = Append(@, value)]
                            [] OTHER -> acc
                    IN  [a EXCEPT !.cfg[name] = value]
         IN  LoadStateItems(Tail(items), acc1)

\* The 'config' section loop, lines 816-819.
RECURSIVE LoadConfigItems(_, _)
LoadConfigItems(items, cfg) ==
    IF items = <<>> THEN cfg
    ELSE LET name == Head(items)[1]
             value == Head(items)[2]
         IN  LoadConfigItems(Tail(items),
                             IF Falsy(cfg[name])
                             THEN [cfg EXCEPT ![name] = value]
                             ELSE cfg)

\* Lines 821-849: the publisher, runner and reporter sections.
LoadSections(cfg, argv, file) ==
    LET c1 == IF file.publisher # None /\ Falsy(cfg["publisher"])
              THEN [cfg EXCEPT !["publisher"] = file.publisher]
              ELSE cfg
        c2 == IF file.runner # None /\ Falsy(c1["runner"])
              THEN [c1 EXCEPT !["runner"] = file.runner]
              ELSE c1
    IN  IF argv.cmd = "report"
        THEN [c2 EXCEPT !["reporter"] = "reporter:cmdline"]
        ELSE IF file.reporter # None
        THEN [c2 EXCEPT !["reporter"] = "reporter:items"]
        ELSE c2

\* Lines 860-884: the paths made absolute, the work directory made up.
PathKeys == {"workdir", "buildinfo", "buildconf", "tarpkg"}

LoadPaths(cfg, tmp) ==
    [k \in Keys |->
       IF k = "workdir" /\ Falsy(cfg[k]) THEN tmp
       ELSE IF k \in PathKeys /\ ~Falsy(cfg[k]) THEN full_path(cfg[k])
       ELSE cfg[k]]

NoDerived(cfg) ==
    [cfg |-> cfg, jobs |-> {}, mergerepos |-> <<>>, mergeheads |-> <<>>,
     localpatches |-> <<>>, patchworks |-> <<>>]

\* Lines 816-897, acc being what the 'state' section loop left.
LoadRest(argv, file, tmp, acc) ==
    [cfg |-> LoadPaths(LoadSections(LoadConfigItems(file.config, acc.cfg),
                                    argv, file),
                       tmp),
     jobs |-> acc.jobs,
     mergerepos |-> acc.mergerepos,
     mergeheads |-> acc.mergeheads,
     localpatches |-> acc.localpatches,
     patchworks |-> acc.patchworks,
     merge_ref |-> argv.merge_ref \o file.merges,
     patchlist |-> argv.patchlist,
     pw |-> argv.pw,
     parser |-> file,
     testcases |-> <<>>]

load_config(argv, file, tmp) ==
    LoadRest(argv, file, tmp,
             IF ~Falsy(argv.opts["state"]) /\ file.hasState
             THEN LoadStateItems(file.state, NoDerived(argv.opts))
             ELSE NoDerived(argv.opts))


(***************************************************************************)
(* The collaborators' values.  The kernel tree's head is h0 after the base *)
(* checkout and moves on by one with every merge-ref or patch applied.     *)
(***************************************************************************)
HeadName(n) ==
    <<"h0", "h1", "h2", "h3", "h4", "h5", "h6", "h7", "h8", "h9">>[n + 1]

\* "%s.tar.gz" % head
TarName(h) ==
    CASE h = "h0" -> "h0.tar.gz"
      [] h = "h1" -> "h1.tar.gz"
      [] h = "h2" -> "h2.tar.gz"
      [] h = "h3" -> "h3.tar.gz"
      [] h = "h4" -> "h4.tar.gz"
      [] h = "h5" -> "h5.tar.gz"
      [] h = "h6" -> "h6.tar.gz"
      [] h = "h7" -> "h7.tar.gz"
      [] h = "h8" -> "h8.tar.gz"
      [] h = "h9" -> "h9.tar.gz"
      [] OTHER -> "x.tar.gz"

\* "%s.csv" % head
CsvName(h) ==
    CASE h = "h0" -> "h0.csv"
      [] h = "h1" -> "h1.csv"
      [] h = "h2" -> "h2.csv"
      [] h = "h3" -> "h3.csv"
      [] h = "h4" -> "h4.csv"
      [] h = "h5" -> "h5.csv"
      [] h = "h6" -> "h6.csv"
      [] h = "h7" -> "h7.csv"
      [] h = "h8" -> "h8.csv"
      [] h = "h9" -> "h9.csv"
      [] OTHER -> "x.csv"

\* "%s.config" % tbuildinfo
ConfigName(b) ==
    CASE b = "h0.csv" -> "h0.csv.config"
      [] b = "h1.csv" -> "h1.csv.config"
      [] b = "h2.csv" -> "h2.csv.config"
      [] b = "h3.csv" -> "h3.csv.config"
      [] b = "h4.csv" -> "h4.csv.config"
      [] b = "h5.csv" -> "h5.csv.config"
      [] b = "h6.csv" -> "h6.csv.config"
      [] b = "h7.csv" -> "h7.csv.config"
      [] b = "h8.csv" -> "h8.csv.config"
      [] b = "h9.csv" -> "h9.csv.config"
      [] b = None -> "None.config"
      [] OTHER -> "ts-buildinfo.csv.config"

\* publisher.publish(path) and publisher.geturl(name): the base URL and the
\* file's base name.
UrlOf(path) ==
    CASE path \in {"h0.tar.gz", "/cwd/h0.tar.gz"} -> "http://pub/h0.tar.gz"
      [] path \in {"h1.tar.gz", "/cwd/h1.tar.gz"} -> "http://pub/h1.tar.gz"
      [] path \in {"h2.tar.gz", "/cwd/h2.tar.gz"} -> "http://pub/h2.tar.gz"
      [] path \in {"h3.tar.gz", "/cwd/h3.tar.gz"} -> "http://pub/h3.tar.gz"
      [] path \in {"h4.tar.gz", "/cwd/h4.tar.gz"} -> "http://pub/h4.tar.gz"
      [] path \in {"h5.tar.gz", "/cwd/h5.tar.gz"} -> "http://pub/h5.tar.gz"
      [] path \in {"h6.tar.gz", "/cwd/h6.tar.gz"} -> "http://pub/h6.tar.gz"
      [] path \in {"h7.tar.gz", "/cwd/h7.tar.gz"} -> "http://pub/h7.tar.gz"
      [] path \in {"h8.tar.gz", "/cwd/h8.tar.gz"} -> "http://pub/h8.tar.gz"
      [] path \in {"h9.tar.gz", "/cwd/h9.tar.gz"} -> "http://pub/h9.tar.gz"
      [] path \in {"t.tar.gz", "/cwd/t.tar.gz"} -> "http://pub/t.tar.gz"
      [] OTHER -> "http://pub/file"

\* The source (url) of the i-th merge-ref, local patch and patchwork patch.
RefSource(i) == <<"u0", "u1", "u2", "u3">>[i + 1]
PatchFile(i) == <<"p0", "p1", "p2", "p3">>[i + 1]
PwUrl(i) == <<"w0", "w1", "w2", "w3">>[i + 1]
JobId(i) == <<"j0", "j1", "j2", "j3">>[i + 1]

MergeLogPath == "/wd/merge.log"
BuildLogPath == "/wd/build.log"
InfoPath == "/wd/buildinfo.csv"


\* " ".join(utypes)
JoinTags(utypes) ==
    CASE utypes = <<"[patchwork]">> -> "[patchwork]"
      [] utypes = <<"[local patch]">> -> "[local patch]"
      [] utypes = <<"[local patch]", "[patchwork]">> -> "[local patch] [patchwork]"
      [] utypes = <<"[git]">> -> "[git]"
      [] utypes = <<"[git]", "[patchwork]">> -> "[git] [patchwork]"
      [] utypes = <<"[git]", "[local patch]">> -> "[git] [local patch]"
      [] utypes = <<"[git]", "[local patch]", "[patchwork]">> -> "[git] [local patch] [patchwork]"
      [] utypes = <<"[git]", "[git]">> -> "[git] [git]"
      [] utypes = <<"[git]", "[git]", "[patchwork]">> -> "[git] [git] [patchwork]"
      [] utypes = <<"[git]", "[git]", "[local patch]">> -> "[git] [git] [local patch]"
      [] utypes = <<"[git]", "[git]", "[local patch]", "[patchwork]">> -> "[git] [git] [local patch] [patchwork]"
      [] utypes = <<"[git]", "[git]", "[git]">> -> "[git] [git] [git]"
      [] utypes = <<"[git]", "[git]", "[git]", "[patchwork]">> -> "[git] [git] [git] [patchwork]"
      [] utypes = <<"[git]", "[git]", "[git]", "[local patch]">> -> "[git] [git] [git] [local patch]"
      [] utypes = <<"[git]", "[git]", "[git]", "[local patch]", "[patchwork]">> -> "[git] [git] [git] [local patch] [patchwork]"
      [] OTHER -> "?"

(***************************************************************************)
(* The stages.  A stage body takes st = [m, file] (the process and the rc  *)
(* file it writes) and o, what the collaborators do during this stage:     *)
(* o.fail names the collaborator call that raises, if one does.  A body    *)
(* that ends by an exception leaves m.exc set.                             *)
(***************************************************************************)
NoFail == [k |-> "none", i |-> 0]
Fail(k, i) == [k |-> k, i |-> i]

\* The observer's log: <<"call", collaborator operation, index>> for a
\* collaborator call, <<"ret", operation, result code>> for the result code
\* a call returned, <<"start" or "end", stage, 0>> for a stage and
\* <<"raise", kind, 0>> for an exception raised in a stage body.
Ev(st, e, i) == [st EXCEPT !.m.log = Append(@, <<"call", e, i>>)]
Ret(st, e, code) == [st EXCEPT !.m.log = Append(@, <<"ret", e, code>>)]
StageEv(st, kind, name) == [st EXCEPT !.m.log = Append(@, <<kind, name, 0>>)]
Raise(st) ==
    [st EXCEPT !.m.exc = "Exception",
               !.m.log = Append(@, <<"raise", "Exception", 0>>)]
SysExit(st) ==
    [st EXCEPT !.m.exc = "SystemExit",
               !.m.log = Append(@, <<"raise", "SystemExit", 0>>)]

BaseHead == HeadName(0)

SetRetcode(st, code) == [st EXCEPT !.m.retcode = code]

\* Line 169: what ktree.merge_git_ref returns for merge-ref idx.
RefCode(o, idx) == IF o.badref = idx + 1 THEN o.code ELSE 0

\* Lines 165-174: the merge-ref loop.  Returns the state, the number of
\* "[git]" tags, the tree's head and how the loop ended.
RECURSIVE MergeRefs(_, _, _, _)
MergeRefs(st, o, idx, head) ==
    IF idx >= Len(st.m.merge_ref)
    THEN [st |-> st, ngit |-> idx, head |-> head, end |-> "next"]
    ELSE LET s2 == Ev(save_state(st,
                     << <<FamilyKey("mergerepo", idx), st.m.merge_ref[idx + 1]>>,
                        <<FamilyKey("mergehead", idx), BaseHead>> >>),
                      "merge_git_ref", idx)
         IN  IF o.fail = Fail("ref", idx)
             THEN [st |-> s2, ngit |-> idx, head |-> head, end |-> "raise"]
             ELSE IF RefCode(o, idx) # 0
             THEN [st |-> SetRetcode(Ret(s2, "merge_git_ref", RefCode(o, idx)),
                                     RefCode(o, idx)),
                   ngit |-> idx + 1, head |-> head, end |-> "return"]
             ELSE MergeRefs(SetRetcode(Ret(s2, "merge_git_ref", 0), 0),
                            o, idx + 1, head + 1)

\* Lines 176-182: the local patches.
RECURSIVE MergePatches(_, _, _, _)
MergePatches(st, o, idx, head) ==
    IF idx >= Len(st.m.patchlist)
    THEN [st |-> st, head |-> head, end |-> "next"]
    ELSE LET s2 == Ev(save_state(st,
                     << <<FamilyKey("localpatch", idx), st.m.patchlist[idx + 1]>> >>),
                      "merge_patch_file", idx)
         IN  IF o.fail = Fail("patch", idx)
             THEN [st |-> s2, head |-> head, end |-> "raise"]
             ELSE MergePatches(s2, o, idx + 1, head + 1)

\* Lines 184-190: the patchwork patches.
RECURSIVE MergePatchworks(_, _, _, _)
MergePatchworks(st, o, idx, head) ==
    IF idx >= Len(st.m.pw)
    THEN [st |-> st, head |-> head, end |-> "next"]
    ELSE LET s2 == Ev(save_state(st,
                     << <<FamilyKey("patchwork", idx), st.m.pw[idx + 1]>> >>),
                      "merge_patchwork_patch", idx)
         IN  IF o.fail = Fail("pw", idx)
             THEN [st |-> s2, head |-> head, end |-> "raise"]
             ELSE MergePatchworks(s2, o, idx + 1, head + 1)

\* Lines 191-193: the except clause of the merge steps.
MergeExcept(st) == Raise(save_state(st, << <<"mergelog", MergeLogPath>> >>))

\* Lines 195-206: the uid and the final save.
MergeFinish(st, o, utypes, head) ==
    IF o.fail = Fail("finish", 0) THEN Raise(st)
    ELSE save_state(st, << <<"workdir", st.m.cfg["workdir"]>>,
                           <<"buildinfo", InfoPath>>,
                           <<"buildhead", HeadName(head)>>,
                           <<"uid", IF utypes # <<>> THEN JoinTags(utypes)
                                    ELSE "[baseline]">> >>)

\* Lines 145-156: the stub of cmd_merge.
MergeStub(st, o) ==
    IF st.m.cfg["test"] = Int0
    THEN save_state(st, << <<"baserepo", st.m.cfg["baserepo"]>>,
                           <<"mergelog", Empty>> >>)
    ELSE IF o.fail = Fail("open", 0) THEN Raise(st)
    ELSE save_state(st, << <<"mergelog", MergeLogPath>> >>)

GitTags(n) == [i \in 1..n |-> "[git]"]
PatchTag(m) == IF m.patchlist # <<>> THEN <<"[local patch]">> ELSE <<>>
PwTag(m) == IF m.pw # <<>> THEN <<"[patchwork]">> ELSE <<>>

\* Lines 191-206, r3 being how the patchwork loop ended.
MergeAfterPatchworks(r3, o, utypes) ==
    IF r3.end = "raise" THEN MergeExcept(r3.st)
    ELSE MergeFinish(r3.st, o, utypes, r3.head)

\* Lines 184-206, r2 being how the local patch loop ended.
MergeAfterPatches(r2, o, utypes) ==
    IF r2.end = "raise" THEN MergeExcept(r2.st)
    ELSE MergeAfterPatchworks(MergePatchworks(r2.st, o, 0, r2.head), o,
                              utypes \o PwTag(r2.st.m))

\* The patches are applied whatever the merges returned.
MergeAfterRefsOn(r1, o) ==
    IF r1.end = "raise" THEN MergeExcept(r1.st)
    ELSE MergeAfterPatches(MergePatches(r1.st, o, 0, r1.head), o,
                           GitTags(r1.ngit) \o PatchTag(r1.st.m))

\* Lines 173-206, r1 being how the merge-ref loop ended.
MergeAfterRefs(r1, o) ==
    IF r1.end = "raise" THEN MergeExcept(r1.st)
    ELSE IF r1.end = "return" THEN r1.st
    ELSE MergeAfterPatches(MergePatches(r1.st, o, 0, r1.head), o,
                           GitTags(r1.ngit) \o PatchTag(r1.st.m))

\* Lines 158-206: cmd_merge without the stub.
MergeReal(st, o) ==
    IF o.fail = Fail("checkout", 0) THEN Raise(Ev(st, "checkout", 0))
    ELSE MergeAfterRefs(
           MergeRefs(save_state(Ev(st, "checkout", 0),
                                << <<"baserepo", st.m.cfg["baserepo"]>>,
                                   <<"basehead", BaseHead>>,
                                   <<"commitdate", "1500000000">> >>),
                     o, 0, 0),
           o)

\* Lines 128-206.
cmd_merge(st, o) ==
    IF st.m.cfg["test"] # None THEN MergeStub(st, o)
    ELSE MergeReal(st, o)


\* The stub of cmd_build leaves a build log whatever the stub value is.
BuildStubLog(st) ==
    save_state(st, << <<"buildhead", st.m.cfg["buildhead"]>>,
                      <<"buildlog", "stub">> >>)

\* Lines 229-237: the stub of cmd_build.
BuildStub(st) ==
    IF st.m.cfg["test"] = Int0
    THEN save_state(st, << <<"buildhead", st.m.cfg["buildhead"]>> >>)
    ELSE save_state(st, << <<"buildlog", "stub">> >>)

\* Lines 249-252: the tarball's new name.
TarTarget(cfg) ==
    IF ~Falsy(cfg["buildhead"]) THEN TarName(cfg["buildhead"])
    ELSE "/wd/ts-linux.tar.gz"

\* Lines 256-262: the build information's new name.
InfoTarget(cfg) ==
    IF Falsy(cfg["buildinfo"]) THEN None
    ELSE IF ~Falsy(cfg["buildhead"]) THEN CsvName(cfg["buildhead"])
    ELSE "/wd/ts-buildinfo.csv"

\* Lines 249-274: the artifacts renamed and the final save.
BuildFinish(st, o) ==
    IF o.fail = Fail("rename", 0) THEN Raise(Ev(st, "move", 0))
    ELSE save_state(Ev(st, "move", 0),
                    << <<"tarpkg", TarTarget(st.m.cfg)>>,
                       <<"buildinfo", InfoTarget(st.m.cfg)>>,
                       <<"buildconf", ConfigName(InfoTarget(st.m.cfg))>>,
                       <<"krelease", "4.16.0">>,
                       <<"kernel_arch", "x86_64">> >>)

\* Lines 243-274: the tarball made.
BuildTgz(st, o) ==
    IF o.fail = Fail("mktgz", 0)
    THEN Raise(save_state(Ev(st, "mktgz", 0), << <<"buildlog", BuildLogPath>> >>))
    ELSE BuildFinish(Ev(st, "mktgz", 0), o)

\* Lines 210-274.
cmd_build(st, o) ==
    IF st.m.cfg["test"] # None THEN BuildStub(st)
    ELSE IF Falsy(st.m.cfg["wipe"]) THEN BuildTgz(st, o)
    ELSE IF o.fail = Fail("clean", 0) THEN Raise(Ev(st, "clean_kernel_source", 0))
    ELSE BuildTgz(Ev(st, "clean_kernel_source", 0), o)

\* Lines 278-314.  getpublisher(*cfg.get('publisher')) raises a TypeError
\* when no publisher is configured.
cmd_publish(st, o) ==
    IF st.m.cfg["publisher"] = None THEN Raise(st)
    ELSE IF Falsy(st.m.cfg["tarpkg"]) THEN Raise(st)
    ELSE IF st.m.cfg["test"] # None
    THEN save_state(st, << <<"buildurl", "some.url.com">> >>)
    ELSE IF o.fail = Fail("publish", 0) THEN Raise(Ev(st, "publish", 0))
    ELSE save_state(Ev(st, "publish", 0),
                    << <<"buildurl", UrlOf(st.m.cfg["tarpkg"])>>,
                       <<"cfgurl", IF ~Falsy(st.m.cfg["buildconf"])
                                   THEN "http://pub/config" ELSE None>>,
                       <<"infourl", IF ~Falsy(st.m.cfg["buildinfo"])
                                    THEN "http://pub/info" ELSE None>> >>)

\* Lines 339-346: the submitted jobs recorded.
RECURSIVE RunJobs(_, _, _)
RunJobs(st, o, idx) ==
    IF idx >= Len(o.jobs) THEN [st |-> st, end |-> "next"]
    ELSE IF Falsy(st.m.cfg["wait"]) \/ Falsy(st.m.cfg["junit"])
    THEN RunJobs(save_state(st, << <<FamilyKey("jobid", idx), o.jobs[idx + 1]>> >>),
                 o, idx + 1)
    ELSE IF o.fail = Fail("dump", idx)
    THEN [st |-> Ev(st, "dumpjunitresults", idx), end |-> "raise"]
    ELSE RunJobs(save_state(Ev(st, "dumpjunitresults", idx),
                            << <<FamilyKey("jobid", idx), o.jobs[idx + 1]>> >>),
                 o, idx + 1)

\* Any failed run is checked against the baseline.
FallbackAlways(m) == m.retcode # 0

\* Lines 348-349: the condition of the baseline run.
Fallback(m) ==
    /\ m.retcode # 0
    /\ ~Falsy(m.cfg["basehead"])
    /\ ~Falsy(m.cfg["publisher"])
    /\ m.cfg["basehead"] # m.cfg["buildhead"]

\* Line 364.
RunFinish(st) == save_state(st, << <<"retcode", IntVal(st.m.retcode)>> >>)

\* The baseline's result leaves the result code as it is.
KeepResult(st, o) == st

\* Lines 358-362, st being the state after the baseline run.
BaseResult(st, o) ==
    IF o.basecode # 0 THEN SetRetcode(st, 0) ELSE st

\* Lines 348-364: the baseline run and the final save.
RunBaseline(st, o) ==
    IF ~Fallback(st.m) THEN RunFinish(st)
    ELSE IF o.fail = Fail("baserun", 0) THEN Raise(Ev(st, "baserun", 0))
    ELSE RunFinish(BaseResult(
           save_state(Ret(Ev(st, "baserun", 0), "baserun", o.basecode),
                      << <<"baseretcode", IntVal(o.basecode)>> >>), o))

\* Lines 346-364, r being how the loop over the jobs ended.
RunAfterJobs(r, o) ==
    IF r.end = "raise" THEN Raise(r.st)
    ELSE RunBaseline([r.st EXCEPT !.m.jobs = {o.jobs[i] : i \in 1..Len(o.jobs)}],
                     o)

\* Lines 318-364.  getrunner(*cfg.get('runner')) raises a TypeError when no
\* runner is configured.
cmd_run(st, o) ==
    IF st.m.cfg["test"] # None
    THEN save_state(st, << <<"retcode", st.m.cfg["test"]>> >>)
    ELSE IF st.m.cfg["runner"] = None THEN Raise(st)
    ELSE IF o.fail = Fail("run", 0) THEN Raise(Ev(st, "run", 0))
    ELSE RunAfterJobs(
           RunJobs(SetRetcode(Ret(Ev(st, "run", 0), "run", o.code), o.code),
                   o, 0),
           o)

\* Lines 367-397.  A reporter taken from the file is a list of items, and
\* cfg['reporter']['type'] then raises a TypeError; a missing reporter class
\* ends the process by sys.exit.
cmd_report(st, o) ==
    IF Falsy(st.m.cfg["reporter"]) THEN st
    ELSE IF st.m.cfg["reporter"] = "reporter:items" THEN Raise(st)
    ELSE IF o.fail = Fail("lookup", 0) THEN SysExit(st)
    ELSE IF st.m.cfg["test"] # None THEN st
    ELSE IF o.fail = Fail("report", 0) THEN Raise(Ev(st, "report", 0))
    ELSE Ev(st, "report", 0)

\* A call made only under a condition.
EvIf(cond, st, e) == IF cond THEN Ev(st, e, 0) ELSE st

\* Cleanup leaves the rc file as it is.
KeepState(st) == st

\* Lines 410-414: the state section removed from the rc file.
RemoveState(st) ==
    IF st.m.parser.hasState
    THEN [st EXCEPT !.m.parser = [@ EXCEPT !.hasState = FALSE, !.state = <<>>],
                    !.file = WriteFile([st.m.parser EXCEPT !.hasState = FALSE,
                                                           !.state = <<>>])]
    ELSE st

\* Lines 428-429.
CleanupWipe(st, o) ==
    IF Falsy(st.m.cfg["wipe"]) \/ Falsy(st.m.cfg["workdir"]) THEN st
    ELSE IF o.fail = Fail("rmtree", 0) THEN Raise(Ev(st, "rmtree", 0))
    ELSE Ev(st, "rmtree", 0)

\* Lines 400-429.
cmd_cleanup(st, o) ==
    CleanupWipe(
      EvIf(~Falsy(st.m.cfg["tarpkg"]),
           EvIf(~Falsy(st.m.cfg["buildinfo"]), RemoveState(st),
                "unlink:buildinfo"),
           "unlink:tarpkg"),
      o)

(***************************************************************************)
(* The junit harness, lines 102-124, around a stage body whose result is   *)
(* r (the state the body left, m.exc set if it raised).  st is the state   *)
(* at the call: cfg.get('junit') is read before the body runs.             *)
(***************************************************************************)
\* Lines 110-113: the except clause.
WrapperExcept(r) ==
    IF r.m.exc = "Exception"
    THEN [r EXCEPT !.m.exc = "none", !.m.retcode = 1]
    ELSE r

\* The record gets a failure for the exception and one more for a non-zero
\* retcode.
WrapperRecordBoth(name, raised, r) ==
    [r EXCEPT !.m.testcases =
         Append(@, [name |-> name,
                    failures |-> (IF raised THEN 1 ELSE 0)
                                 + (IF r.m.retcode # 0 THEN 1 ELSE 0),
                    exception |-> raised])]

\* Lines 116-121: the failure for a non-zero retcode, and the record.
WrapperRecord(name, raised, r) ==
    [r EXCEPT !.m.testcases =
         Append(@, [name |-> name,
                    failures |-> (IF raised THEN 1 ELSE 0)
                                 + (IF r.m.retcode # 0 /\ ~raised THEN 1 ELSE 0),
                    exception |-> raised])]

\* The harness records the stage whether structured reporting is enabled or
\* not.
wrapperAlways(name, st, r) ==
    IF r.m.exc = "SystemExit" THEN r
    ELSE WrapperRecord(name, r.m.exc = "Exception", WrapperExcept(r))

\* Lines 102-124.
wrapper(name, st, r) ==
    IF ~Falsy(st.m.cfg["junit"])
    THEN IF r.m.exc = "SystemExit" THEN r
         ELSE WrapperRecord(name, r.m.exc = "Exception", WrapperExcept(r))
    ELSE r

\* The stages as their commands call them: merge, build, publish and run
\* carry the @junit decorator, report and cleanup do not.
Decorated == {"merge", "build", "publish", "run"}

\* The observer sees a stage end when it returns to its caller.
Returned(name, w) ==
    IF w.m.exc = "none" THEN StageEv(w, "end", name) ELSE w

\* Stage name called in state s0, its body leaving r.
Stage(name, s0, r) ==
    Returned(name, IF name \in Decorated THEN wrapper(name, s0, r) ELSE r)


(***************************************************************************)
(* Command lines.  setup_parser, lines 475-766: the flags default to False,*)
(* every other option to None.                                             *)
(***************************************************************************)
Defaults ==
    [k \in Keys |-> IF k \in {"state", "wipe", "wait"} THEN PyFalse ELSE None]

\* The command line with the options of the mapping given (option -> value),
\* nrefs merge-refs, npatches local patches and npw patchwork patches, on
\* rc file rc.
MkArgv(cmd, given, nrefs, npatches, npw, rc) ==
    [cmd |-> cmd,
     given |-> DOMAIN given \cap Keys,
     opts |-> [k \in Keys |-> IF k \in DOMAIN given THEN given[k] ELSE Defaults[k]],
     merge_ref |-> [i \in 1..nrefs |-> RefSource(i - 1)],
     patchlist |-> [i \in 1..npatches |-> PatchFile(i - 1)],
     pw |-> [i \in 1..npw |-> PwUrl(i - 1)],
     rc |-> rc]

\* Every command line gives the rc file.
Rc(f) == [rc |-> f]

NoArgv == MkArgv("none", Rc(1), 0, 0, 0, 1)

(***************************************************************************)
(* Processes.                                                              *)
(***************************************************************************)
EmptyFile ==
    [hasState |-> FALSE, state |-> <<>>, config |-> <<>>,
     publisher |-> None, runner |-> None, reporter |-> None, merges |-> <<>>]

StageNames == {"merge", "build", "publish", "run", "report", "cleanup"}

IdleProc ==
    [pc |-> "idle", argv |-> NoArgv,
     cfg |-> [k \in Keys |-> None], jobs |-> {},
     mergerepos |-> <<>>, mergeheads |-> <<>>, localpatches |-> <<>>,
     patchworks |-> <<>>, merge_ref |-> <<>>, patchlist |-> <<>>, pw |-> <<>>,
     parser |-> EmptyFile, testcases |-> <<>>,
     retcode |-> 0, exc |-> "none", exitcode |-> -1, xml |-> <<>>,
     log |-> <<>>, hist |-> <<>>, upd |-> <<>>, wrote |-> <<>>,
     seen |-> [n \in StageNames |-> <<>>]]

\* Lines 931-941: main up to args.func(cfg): a new process in slot p loads
\* its configuration; the module global retcode starts at 0 (line 42).
StartedWith(old, argv, l) ==
    [pc |-> IF argv.cmd = "all" THEN "merge" ELSE argv.cmd,
     argv |-> argv,
     cfg |-> l.cfg, jobs |-> l.jobs,
     mergerepos |-> l.mergerepos, mergeheads |-> l.mergeheads,
     localpatches |-> l.localpatches, patchworks |-> l.patchworks,
     merge_ref |-> l.merge_ref, patchlist |-> l.patchlist, pw |-> l.pw,
     parser |-> l.parser, testcases |-> l.testcases,
     retcode |-> 0, exc |-> "none", exitcode |-> -1, xml |-> <<>>,
     log |-> Append(old.log, <<"invoke", argv.cmd, 0>>),
     hist |-> old.hist, upd |-> <<>>, wrote |-> <<>>, seen |-> old.seen]

\* tempfile.mkdtemp(): a new directory for every process that asks.
TmpDir(n) ==
    <<"/tmp/tmp0", "/tmp/tmp1", "/tmp/tmp2", "/tmp/tmp3", "/tmp/tmp4">>[n + 1]

Started(old, argv, file) ==
    StartedWith(old, argv, load_config(argv, file, TmpDir(Len(old.hist))))

\* Lines 432-446: where cmd_all goes after a stage; a single command goes
\* back to main.
NextPc(m, name) ==
    IF m.argv.cmd # "all" THEN "exit"
    ELSE CASE name = "merge" -> "build"
           [] name = "build" -> "publish"
           [] name = "publish" -> "run"
           [] name = "run" -> IF ~Falsy(m.cfg["wait"]) THEN "report" ELSE "cleanup"
           [] name = "report" -> "cleanup"
           [] name = "cleanup" -> "exit"

\* sys.exit(retcode): the exit status is the low byte of the code.
ExitStatus(retcode) == retcode % 256

\* What the observer keeps of a process that has ended.
Ended(m, file, status) ==
    [m EXCEPT !.pc = "done", !.exitcode = status,
              !.hist = Append(@, [cmd |-> m.argv.cmd, exitcode |-> status,
                                  hasState |-> file.hasState,
                                  state |-> file.state,
                                  wrote |-> m.wrote])]

\* A stage has run: cmd_all or main goes on, or the exception ends the
\* process (an uncaught exception and sys.exit(message) both exit with 1).
AfterStage(w, name) ==
    IF w.m.exc # "none"
    THEN Ended(w.m, w.file, 1)
    ELSE [w.m EXCEPT !.pc = NextPc(w.m, name)]

\* Lines 942-947: the junit file and sys.exit(retcode).
main_exit(m, file) ==
    Ended([m EXCEPT !.xml = IF ~Falsy(m.cfg["junit"]) THEN m.testcases ELSE <<>>],
          file, ExitStatus(m.retcode))


(***************************************************************************)
(* What the collaborators may do during one stage.                         *)
(*   fail     the call that raises (NoFail: none does);                    *)
(*   badref   the merge-ref (counted from 1) whose merge returns the       *)
(*            non-zero result code, 0 if every merge returns 0;            *)
(*   code     that result for Merge, the runner's result for Run;          *)
(*   jobs     the job identifiers the runner submitted;                    *)
(*   basecode the result of the baseline run.                              *)
(***************************************************************************)
Outcome(fail, badref, code, jobs, basecode) ==
    [fail |-> fail, badref |-> badref, code |-> code, jobs |-> jobs,
     basecode |-> basecode]

Quiet == Outcome(NoFail, 0, 0, <<>>, 0)

JobList(n) == [i \in 1..n |-> JobId(i - 1)]

MergeOutcomes(m) ==
    {Outcome(f, b, c, <<>>, 0) :
       f \in {NoFail, Fail("open", 0), Fail("checkout", 0), Fail("finish", 0)}
             \cup {Fail("ref", i) : i \in 0..(Len(m.merge_ref) - 1)}
             \cup {Fail("patch", i) : i \in 0..(Len(m.patchlist) - 1)}
             \cup {Fail("pw", i) : i \in 0..(Len(m.pw) - 1)},
       b \in 0..Len(m.merge_ref),
       c \in {1, 2}}

BuildOutcomes ==
    {Outcome(f, 0, 0, <<>>, 0) :
       f \in {NoFail, Fail("clean", 0), Fail("mktgz", 0), Fail("rename", 0)}}

PublishOutcomes ==
    {Outcome(f, 0, 0, <<>>, 0) : f \in {NoFail, Fail("publish", 0)}}

RunOutcomes ==
    {Outcome(f, 0, c, JobList(n), b) :
       f \in {NoFail, Fail("run", 0), Fail("baserun", 0)}
             \cup {Fail("dump", i) : i \in 0..(MaxJobs - 1)},
       c \in {0, 1, 2},
       n \in 0..MaxJobs,
       b \in {0, 1}}

ReportOutcomes ==
    {Outcome(f, 0, 0, <<>>, 0) :
       f \in {NoFail, Fail("lookup", 0), Fail("report", 0)}}

CleanupOutcomes ==
    {Outcome(f, 0, 0, <<>>, 0) : f \in {NoFail, Fail("rmtree", 0)}}

\* The outcomes a stage may meet: any of all, or the scripted one.
Choices(name, all) ==
    IF env.scripted THEN {env.out[name]} ELSE all

(***************************************************************************)
(* The actions.                                                            *)
(***************************************************************************)
\* A process is started in slot p with command line argv.
Invoke(p, argv) ==
    /\ proc[p].pc \in {"idle", "done"}
    /\ proc' = [proc EXCEPT ![p] = Started(proc[p], argv, disk[argv.rc])]
    /\ UNCHANGED <<disk, env>>

\* The fields of the State a stage reads, lines 138-143 and 166-187 for
\* merge, 220-262 for build, 288-310 for publish, 329-349 for run, 375-396
\* for report and 410-429 for cleanup.
StageReads(name) ==
    CASE name = "merge" -> {"baserepo", "workdir", "test"}
      [] name = "build" -> {"workdir", "test", "wipe", "buildhead", "buildinfo"}
      [] name = "publish" -> {"publisher", "tarpkg", "test", "buildinfo",
                              "buildconf"}
      [] name = "run" -> {"test", "runner", "buildurl", "krelease", "wait",
                          "uid", "kernel_arch", "junit", "basehead",
                          "publisher", "buildhead"}
      [] name = "report" -> {"reporter", "test"}
      [] name = "cleanup" -> {"buildinfo", "tarpkg", "wipe", "workdir"}

\* What the stage finds in the State of process m: the fields it reads, the
\* paths among them as the absolute paths they stand for.
InputFields(name, m) ==
    [k \in StageReads(name) |->
       IF k \in PathKeys THEN full_path(m.cfg[k]) ELSE m.cfg[k]]

\* The process in slot p as it enters stage name.
Entered(p, name) ==
    StageEv([m |-> [proc[p] EXCEPT
                      !.seen[name] = <<InputFields(name, proc[p])>>],
             file |-> disk[proc[p].argv.rc]],
            "start", name)

\* The stage has left w: the process goes on and the rc file is as written.
Commit(p, name, w) ==
    /\ proc' = [proc EXCEPT ![p] = AfterStage(w, name)]
    /\ disk' = [disk EXCEPT ![proc[p].argv.rc] = w.file]
    /\ UNCHANGED env

\* The process in slot p runs the stage it stands before.
Merge(p) ==
    /\ proc[p].pc = "merge"
    /\ \E o \in Choices("merge", MergeOutcomes(proc[p])) :
         Commit(p, "merge",
                Stage("merge", Entered(p, "merge"),
                      cmd_merge(Entered(p, "merge"), o)))

Build(p) ==
    /\ proc[p].pc = "build"
    /\ \E o \in Choices("build", BuildOutcomes) :
         Commit(p, "build",
                Stage("build", Entered(p, "build"),
                      cmd_build(Entered(p, "build"), o)))

Publish(p) ==
    /\ proc[p].pc = "publish"
    /\ \E o \in Choices("publish", PublishOutcomes) :
         Commit(p, "publish",
                Stage("publish", Entered(p, "publish"),
                      cmd_publish(Entered(p, "publish"), o)))

Run(p) ==
    /\ proc[p].pc = "run"
    /\ \E o \in Choices("run", RunOutcomes) :
         Commit(p, "run",
                Stage("run", Entered(p, "run"),
                      cmd_run(Entered(p, "run"), o)))

Report(p) ==
    /\ proc[p].pc = "report"
    /\ \E o \in Choices("report", ReportOutcomes) :
         Commit(p, "report",
                Stage("report", Entered(p, "report"),
                      cmd_report(Entered(p, "report"), o)))

Cleanup(p) ==
    /\ proc[p].pc = "cleanup"
    /\ \E o \in Choices("cleanup", CleanupOutcomes) :
         Commit(p, "cleanup",
                Stage("cleanup", Entered(p, "cleanup"),
                      cmd_cleanup(Entered(p, "cleanup"), o)))

\* The process in slot p leaves main.
Exit(p) ==
    /\ proc[p].pc = "exit"
    /\ proc' = [proc EXCEPT ![p] = main_exit(proc[p], disk[proc[p].argv.rc])]
    /\ UNCHANGED <<disk, env>>

Step(p) ==
    \/ Merge(p)
    \/ Build(p)
    \/ Publish(p)
    \/ Run(p)
    \/ Report(p)
    \/ Cleanup(p)
    \/ Exit(p)


(***************************************************************************)
(* The pipeline: one invocation of any command on an rc file.              *)
(***************************************************************************)
\* An option on the command line, left out when it has its default value.
Opt(k, v) == IF v = Defaults[k] THEN Rc(1) ELSE (k :> v)

Flags(junit, state, test, wait, wipe) ==
    Opt("junit", junit) @@ Opt("state", state) @@ Opt("test", test)
      @@ Opt("wait", wait) @@ Opt("wipe", wipe) @@ Rc(1)

\* The 'state' section the tool leaves after merge, build and publish of a
\* tree whose head is buildhead (h0: nothing was merged).
PriorState(buildhead) ==
    << <<"basehead", BaseHead>>, <<"commitdate", "1500000000">>,
       <<"workdir", "/tmp/tmpA">>, <<"buildinfo", CsvName(buildhead)>>,
       <<"buildhead", buildhead>>,
       <<"uid", IF buildhead = BaseHead THEN "[baseline]" ELSE "[git]">>,
       <<"tarpkg", TarName(buildhead)>>,
       <<"buildconf", ConfigName(CsvName(buildhead))>>,
       <<"krelease", "4.16.0">>, <<"kernel_arch", "x86_64">>,
       <<"buildurl", UrlOf(TarName(buildhead))>>,
       <<"cfgurl", "http://pub/config">>, <<"infourl", "http://pub/info">> >>

RcFile(publisher, reporter, hasState, state) ==
    [EmptyFile EXCEPT !.publisher = publisher, !.runner = "runner:beaker",
                      !.reporter = reporter, !.hasState = hasState,
                      !.state = state]

MainFiles ==
    {RcFile(pb, rp, FALSE, <<>>) :
        pb \in {None, "publisher:cp"}, rp \in {None, "reporter:items"}}
    \cup {RcFile(pb, None, TRUE, PriorState(h)) :
            pb \in {None, "publisher:cp"}, h \in {HeadName(0), HeadName(1)}}

Bools == {PyFalse, PyTrue}

MainArgvs(file) ==
    IF ~file.hasState
    THEN {MkArgv("all", Flags(j, s, t, w, PyTrue), n, n, 0, 1) :
            j \in {None, "/junit"}, s \in Bools, t \in {None, Int0, Int2},
            w \in Bools, n \in {0, 1}}
         \cup {MkArgv("merge", Flags(j, PyTrue, t, PyFalse, PyFalse), nr, np, nw, 1) :
                 j \in {None, "/junit"}, t \in {None, Int0, Int1},
                 nr \in 0..MaxRefs, np \in 0..MaxPatches, nw \in {0, 1}}
    ELSE {MkArgv(c, Flags(j, s, t, w, w), 0, 0, 0, 1) :
            c \in {"build", "publish", "run", "report", "cleanup"},
            j \in {None, "/junit"}, s \in Bools, t \in {None, Int0, Int2},
            w \in Bools}
         \cup {MkArgv("all", Flags(j, PyTrue, t, w, PyFalse), 0, 0, 0, 1) :
                 j \in {None, "/junit"}, t \in {None, Int0, Int2}, w \in Bools}

NoArgs ==
    [cmd |-> "all", junit |-> None, test |-> None, wait |-> PyFalse, nrefs |-> 0]

Free == [scripted |-> FALSE, out |-> [n \in StageNames |-> Quiet],
         args |-> NoArgs]

Init ==
    /\ proc = [p \in ProcIds |-> IdleProc]
    /\ \E file \in MainFiles : disk = [f \in FileIds |-> file]
    /\ env = Free

Start ==
    /\ proc[1].pc = "idle"
    /\ \E argv \in MainArgvs(disk[1]) : Invoke(1, argv)

Next ==
    \/ Start
    \/ Step(1)

Spec == Init /\ [][Next]_vars


(***************************************************************************)
(* The store, loading: load_config applied to a command line and an rc     *)
(* file whose 'state' and 'config' sections hold any entries, in any order.*)
(***************************************************************************)
\* Entries a 'state' section may hold.
StatePool ==
    {<<"mergerepo_00", "u0">>, <<"mergerepo_01", "u1">>, <<"mergehead_00", "h0">>,
     <<"localpatch_00", "p0">>, <<"patchwork_00", "w0">>,
     <<"jobid_0", "j0">>, <<"jobid_1", "j1">>, <<"test", "3">>}

\* The sections of at most n entries from pool, no option twice.
RECURSIVE Sections(_, _)
Sections(pool, n) ==
    IF n = 0 THEN {<<>>}
    ELSE LET shorter == Sections(pool, n - 1)
         IN  shorter \cup
             {Append(sec, e) : sec \in {x \in shorter : Len(x) = n - 1},
                               e \in {y \in pool : TRUE}}

NoRepeat(items) ==
    \A i, j \in 1..Len(items) : items[i][1] = items[j][1] => i = j

ConfigSections ==
    {<<>>, << <<"test", "1">> >>, << <<"test", "1">>, <<"junit", "/cfg">> >>}

LoadFiles ==
    {[EmptyFile EXCEPT !.hasState = hs, !.state = sec, !.config = cs] :
        hs \in {TRUE},
        sec \in {x \in Sections(StatePool, MaxItems) : NoRepeat(x)},
        cs \in ConfigSections}
    \cup {[EmptyFile EXCEPT !.config = cs] : cs \in ConfigSections}

LoadArgvs ==
    {MkArgv(c, Opt("state", s) @@ Opt("test", t) @@ Opt("junit", j) @@ Rc(1),
            0, 0, 0, 1) :
        c \in {"merge", "run"}, s \in Bools, t \in {None, Int0, Int2},
        j \in {None, Empty, "/junit"}}

LoadInit ==
    /\ proc = [p \in ProcIds |-> IdleProc]
    /\ \E file \in LoadFiles : disk = [f \in FileIds |-> file]
    /\ env = Free

\* main, lines 934-939: the command line parsed and the configuration loaded.
Load ==
    /\ proc[1].pc = "idle"
    /\ \E argv \in LoadArgvs : Invoke(1, argv)

LoadNext == Load

LoadSpec == LoadInit /\ [][LoadNext]_vars

\* The process in slot p has loaded its State from the rc file as it is.
Loaded(p) == proc[p].pc \notin {"idle", "done"} /\ Len(proc[p].log) = 1

\* The value the precedence rule gives key k: the command line's if one was
\* supplied, else the persisted one, else the config section's, else the
\* option's default.
Precedence(argv, file, k) ==
    IF k \in argv.given THEN argv.opts[k]
    ELSE IF ~Falsy(argv.opts["state"]) /\ file.hasState /\ HasOption(file.state, k)
    THEN GetOption(file.state, k)
    ELSE IF HasOption(file.config, k) THEN GetOption(file.config, k)
    ELSE Defaults[k]

\* Keys load_config gives a value of its own: the sections turned into
\* objects and the paths made absolute.
DerivedKeys == PathKeys \cup {"publisher", "runner", "reporter"}

\* C1: for every key the loaded State holds the command-line value if one
\* was supplied (a falsy one included), else the persisted value if
\* persistence is enabled and the key is persisted, else the config value.
C1_LoadPrecedence ==
    \A k \in Keys \ DerivedKeys :
      Loaded(1) => proc[1].cfg[k] = Precedence(proc[1].argv, disk[1], k)

\* The values of family fam in a section, by ascending index.
ByIndex(items, fam) ==
    LET present == SelectSeq(FamilyKeySeq(fam), LAMBDA k : HasOption(items, k))
    IN  [i \in 1..Len(present) |-> GetOption(items, present[i])]

\* C3: loading with persistence enabled gives jobs exactly the persisted
\* jobid values and gives each of mergerepos, mergeheads, localpatches and
\* patchworks the persisted values of its family in ascending index order,
\* whatever the order of the entries in the file.
C3_IndexedSequences ==
    Loaded(1) /\ ~Falsy(proc[1].argv.opts["state"]) /\ disk[1].hasState
    => /\ proc[1].jobs = {GetOption(disk[1].state, k) :
                            k \in {x \in FamilyKeys("jobid") :
                                     HasOption(disk[1].state, x)}}
       /\ proc[1].mergerepos = ByIndex(disk[1].state, "mergerepo")
       /\ proc[1].mergeheads = ByIndex(disk[1].state, "mergehead")
       /\ proc[1].localpatches = ByIndex(disk[1].state, "localpatch")
       /\ proc[1].patchworks = ByIndex(disk[1].state, "patchwork")


(***************************************************************************)
(* The store, saving: a process that has loaded its State calls save_state *)
(* with any update mapping, up to MaxSaves times.                          *)
(***************************************************************************)
SaveFiles ==
    {[EmptyFile EXCEPT !.hasState = hs, !.state = sec] :
        hs \in {TRUE},
        sec \in {<<>>, << <<"buildinfo", "old">> >>,
                 << <<"buildurl", "url">>, <<"buildinfo", "old">> >>}}
    \cup {EmptyFile}

SaveArgvs ==
    {MkArgv("build", Opt("state", s) @@ Rc(1), 0, 0, 0, 1) : s \in Bools}

\* The update mappings: one or two keys, each with a null or another value.
Updates ==
    LET one(k) == {<<k, v>> : v \in {None, IF k = "retcode" THEN Int1 ELSE "new"}}
    IN  {<<e>> : e \in one("buildinfo") \cup one("buildurl") \cup one("retcode")}
        \cup {<<e1, e2>> : e1 \in one("buildinfo"),
                           e2 \in one("buildurl") \cup one("retcode")}

SaveInit ==
    /\ proc = [p \in ProcIds |-> IdleProc]
    /\ \E file \in SaveFiles : disk = [f \in FileIds |-> file]
    /\ env = Free

SaveStart ==
    /\ proc[1].pc = "idle"
    /\ \E argv \in SaveArgvs : Invoke(1, argv)

\* The process has made the call save_state(cfg, upd), which left w.
Saved(p, upd, w) ==
    /\ proc' = [proc EXCEPT ![p] = [w.m EXCEPT !.upd = upd]]
    /\ disk' = [disk EXCEPT ![proc[p].argv.rc] = w.file]
    /\ UNCHANGED env

Save(p) ==
    /\ proc[p].pc \notin {"idle", "done"}
    /\ Len(proc[p].log) <= MaxSaves
    /\ \E upd \in Updates :
         Saved(p, upd,
               save_state(Ev([m |-> proc[p], file |-> disk[proc[p].argv.rc]],
                             "save_state", 0),
                          upd))

SaveNext ==
    \/ SaveStart
    \/ Save(1)

SaveSpec == SaveInit /\ [][SaveNext]_vars

\* The entry of option k in a section: <<value>> if it has one, <<>> if not.
Entry(items, k) == IF HasOption(items, k) THEN <<GetOption(items, k)>> ELSE <<>>

\* The step is a call of save_state by the process in slot p, with
\* persistence enabled.
SaveStep(p) ==
    /\ Len(proc'[p].log) = Len(proc[p].log) + 1
    /\ proc'[p].log[Len(proc'[p].log)] = <<"call", "save_state", 0>>
    /\ ~Falsy(proc[p].cfg["state"])

\* C2: save_state with persistence enabled sets a key whose update is null
\* to null in memory and leaves its persisted entry as it was (absent or
\* with its older value); every non-null update is in memory and in the
\* persisted section afterwards.
C2_PersistNull ==
    [][SaveStep(1) =>
         \A k \in Keys :
           HasOption(proc'[1].upd, k) =>
             /\ proc'[1].cfg[k] = GetOption(proc'[1].upd, k)
             /\ IF GetOption(proc'[1].upd, k) = None
                THEN Entry(disk'[1].state, k) = Entry(disk[1].state, k)
                ELSE /\ disk'[1].hasState
                     /\ Entry(disk'[1].state, k)
                          = <<Str(GetOption(proc'[1].upd, k))>>]_vars

\* A null update for a key with an older persisted value has been saved
\* together with a non-null one, persistence enabled.
C2_Witness ==
    /\ ~Falsy(proc[1].cfg["state"])
    /\ \E k1, k2 \in Keys :
         /\ HasOption(proc[1].upd, k1) /\ GetOption(proc[1].upd, k1) = None
         /\ HasOption(disk[1].state, k1)
         /\ HasOption(proc[1].upd, k2) /\ GetOption(proc[1].upd, k2) # None


(***************************************************************************)
(* Properties of the pipeline.                                             *)
(***************************************************************************)
\* What the log of the process in slot p gains by the step.
NewLog(p) ==
    SubSeq(proc'[p].log, Len(proc[p].log) + 1, Len(proc'[p].log))

InLog(log, e) == \E i \in 1..Len(log) : log[i] = e

\* The step is a Run stage without the stub in which no call raises, the
\* primary run returning c.
RunReturned(p, c) ==
    /\ proc[p].pc = "run"
    /\ proc[p].cfg["test"] = None
    /\ InLog(NewLog(p), <<"ret", "run", c>>)
    /\ ~InLog(NewLog(p), <<"raise", "Exception", 0>>)

\* The condition of the baseline fallback, as the claims word it.
BaselineDiffers(m) ==
    /\ ~Falsy(m.cfg["basehead"])
    /\ m.cfg["basehead"] # m.cfg["buildhead"]
    /\ ~Falsy(m.cfg["publisher"])

\* The persisted retcode is code, if the State is persisted.
PersistedRetcode(p, code) ==
    Falsy(proc'[p].cfg["state"])
    \/ Entry(disk'[proc[p].argv.rc].state, "retcode") = <<Str(IntVal(code))>>

Codes == 0..2

\* C4: in a non-stub Run that no exception cuts short, if the primary run
\* returns non-zero, the baseline revision differs from the build revision
\* and a publisher is configured, a second run against the baseline is
\* attempted and its result recorded as baseretcode; if it is non-zero the
\* shared and persisted retcode become 0, if it is 0 they stay the primary
\* run's code.
C4_BaselineFallback ==
    [][\A c \in Codes \ {0} :
         RunReturned(1, c) /\ BaselineDiffers(proc[1]) =>
           /\ InLog(NewLog(1), <<"call", "baserun", 0>>)
           /\ \E b \in Codes :
                /\ InLog(NewLog(1), <<"ret", "baserun", b>>)
                /\ proc'[1].cfg["baseretcode"] = IntVal(b)
                /\ proc'[1].retcode = IF b # 0 THEN 0 ELSE c
                /\ proc'[1].cfg["retcode"] = IntVal(proc'[1].retcode)
                /\ PersistedRetcode(1, proc'[1].retcode)]_vars

\* A Run has ended whose primary run failed and whose baseline run failed
\* too: the result code is 0 and persisted as such.
C4_Witness ==
    /\ InLog(proc[1].log, <<"ret", "run", 2>>)
    /\ InLog(proc[1].log, <<"ret", "baserun", 1>>)
    /\ InLog(proc[1].log, <<"end", "run", 0>>)
    /\ proc[1].retcode = 0
    /\ Entry(disk[1].state, "retcode") = <<"0">>
    /\ Entry(disk[1].state, "baseretcode") = <<"1">>

\* C5: in a non-stub Run that no exception cuts short, a non-zero primary
\* result becomes 0 only when the baseline run was attempted and returned
\* non-zero; when the primary run returns 0, or the
\* baseline revision is absent or equal to the build revision, or no
\* publisher is configured, no baseline run is submitted, no baseretcode is
\* written and the persisted and shared retcode are the primary's result.
C5_NoFalseOverride ==
    [][\A c \in Codes :
         RunReturned(1, c) =>
           /\ (c # 0 /\ proc'[1].retcode = 0 =>
                 \E b \in Codes \ {0} : InLog(NewLog(1), <<"ret", "baserun", b>>))
           /\ (c = 0 \/ ~BaselineDiffers(proc[1]) =>
                 /\ ~InLog(NewLog(1), <<"call", "baserun", 0>>)
                 /\ proc'[1].cfg["baseretcode"] = proc[1].cfg["baseretcode"]
                 /\ Entry(disk'[1].state, "baseretcode")
                      = Entry(disk[1].state, "baseretcode")
                 /\ proc'[1].retcode = c
                 /\ proc'[1].cfg["retcode"] = IntVal(c)
                 /\ PersistedRetcode(1, c))]_vars

\* A Run has ended whose primary run failed with no publisher configured,
\* the baseline revision differing from the build revision: no baseline run
\* was made and the failure stands.
C5_Witness ==
    /\ InLog(proc[1].log, <<"ret", "run", 1>>)
    /\ InLog(proc[1].log, <<"end", "run", 0>>)
    /\ ~InLog(proc[1].log, <<"call", "baserun", 0>>)
    /\ ~Falsy(proc[1].cfg["basehead"])
    /\ proc[1].cfg["basehead"] # proc[1].cfg["buildhead"]
    /\ Falsy(proc[1].cfg["publisher"])
    /\ proc[1].retcode = 1
    /\ Entry(disk[1].state, "retcode") = <<"1">>
    /\ ~HasOption(disk[1].state, "baseretcode")


\* The number of entries e in a log.
Count(log, e) == Cardinality({i \in 1..Len(log) : log[i] = e})

\* The stages a log shows to have started, in their order.
Starts(log) ==
    LET sel == SelectSeq(log, LAMBDA e : e[1] = "start")
    IN  [i \in 1..Len(sel) |-> sel[i][2]]

\* The stages of cmd_all for process m, lines 440-446.
AllStages(m) ==
    <<"merge", "build", "publish", "run">>
      \o (IF ~Falsy(m.cfg["wait"]) THEN <<"report">> ELSE <<>>)
      \o <<"cleanup">>

\* The process in slot p is an `all` invocation that has ended.
AllEnded(p) == proc[p].argv.cmd = "all" /\ proc[p].pc = "done"

\* C6: with structured reporting enabled, when a stage of an `all`
\* invocation (merge, build, publish, run, report or cleanup) raises an
\* exception, the process is not aborted: every later stage still executes
\* and a failure record for the raising stage is appended to the records.
C6_NonPropagation ==
    /\ AllEnded(1)
    /\ ~Falsy(proc[1].cfg["junit"])
    /\ InLog(proc[1].log, <<"raise", "Exception", 0>>)
    /\ ~InLog(proc[1].log, <<"raise", "SystemExit", 0>>)
    => /\ proc[1].exc = "none"
       /\ Starts(proc[1].log) = AllStages(proc[1])
       /\ Cardinality({i \in 1..Len(proc[1].testcases) :
                         proc[1].testcases[i].exception})
            = Count(proc[1].log, <<"raise", "Exception", 0>>)

\* C7: the exit code is 0 only if no stage of the invocation failed: not if
\* a stage raised an exception the harness caught, nor if a stage ended
\* with a non-zero result that the baseline fallback did not override,
\* whatever later stages do.
C7_ExitCode ==
    proc[1].pc = "done" /\ proc[1].exitcode = 0
    => /\ ~InLog(proc[1].log, <<"raise", "Exception", 0>>)
       /\ \A c \in Codes \ {0} :
            /\ ~InLog(proc[1].log, <<"ret", "merge_git_ref", c>>)
            /\ InLog(proc[1].log, <<"ret", "run", c>>)
                 => \E b \in Codes \ {0} :
                      InLog(proc[1].log, <<"ret", "baserun", b>>)

\* Every stage but the last one started has ended before the next starts.
OneAtATime(log) ==
    \A i, j \in 1..Len(log) :
      i < j /\ log[i][1] = "start" /\ log[j][1] = "start"
        => \E k \in (i + 1)..(j - 1) : log[k] = <<"end", log[i][2], 0>>

\* C8: in every `all` invocation the stages start in the order Merge,
\* Build, Publish, Run, none before the previous one has ended; Report is
\* executed if and only if the wait flag is set; Cleanup is always
\* executed, as the last stage, also when an earlier stage failed.
C8_AllSequencing ==
    AllEnded(1)
    => /\ Starts(proc[1].log) = AllStages(proc[1])
       /\ OneAtATime(proc[1].log)


(***************************************************************************)
(* Stage re-entry: the same pipeline run twice with the same command-line  *)
(* options and the same collaborator results (env), persistence enabled:   *)
(* in slot 1 as one `all` invocation on rc file 1, followed up to the end  *)
(* of its Run stage, and in slot 2 as the four invocations merge, build,   *)
(* publish, run on rc file 2.  The two runs share nothing, so the second   *)
(* is started when the first has come to its end.                          *)
(***************************************************************************)
ReArgs ==
    {[cmd |-> "all", junit |-> j, test |-> t, wait |-> PyFalse, nrefs |-> n] :
        j \in {None, "/junit"}, t \in {None, Int0, Int1}, n \in {0, 1}}

ReScripts ==
    {[merge |-> om, build |-> ob, publish |-> op, run |-> or,
      report |-> Quiet, cleanup |-> Quiet] :
        om \in {Quiet, Outcome(NoFail, 1, 1, <<>>, 0),
                Outcome(Fail("checkout", 0), 0, 0, <<>>, 0)},
        ob \in {Quiet, Outcome(Fail("mktgz", 0), 0, 0, <<>>, 0)},
        op \in {Quiet, Outcome(Fail("publish", 0), 0, 0, <<>>, 0)},
        or \in {Outcome(NoFail, 0, c, JobList(1), b) : c \in {0, 1}, b \in {0, 1}}
               \cup {Outcome(Fail("run", 0), 0, 0, <<>>, 0)}}

ReFiles == {RcFile(pb, None, FALSE, <<>>) : pb \in {None, "publisher:cp"}}

ReInit ==
    /\ proc = [p \in ProcIds |-> IdleProc]
    /\ \E file \in ReFiles : disk = [f \in FileIds |-> file]
    /\ \E args \in ReArgs, out \in ReScripts :
         env = [scripted |-> TRUE, out |-> out, args |-> args]

\* The command line of command cmd on rc file rc, with the run's options.
ReArgv(cmd, rc) ==
    MkArgv(cmd,
           Flags(env.args.junit, PyTrue, env.args.test, env.args.wait, PyFalse)
             @@ Rc(rc),
           IF cmd \in {"all", "merge"} THEN env.args.nrefs ELSE 0, 0, 0, rc)

ReCommands == <<"merge", "build", "publish", "run">>

\* The `all` invocation has come to the end of its Run stage, or has ended.
PastRun(p) == proc[p].pc \in {"report", "cleanup", "exit", "done"}

StartAll ==
    /\ proc[1].pc = "idle"
    /\ Invoke(1, ReArgv("all", 1))

StartStage ==
    /\ PastRun(1)
    /\ Len(proc[2].hist) < Len(ReCommands)
    /\ Invoke(2, ReArgv(ReCommands[Len(proc[2].hist) + 1], 2))

ReNext ==
    \/ StartAll
    \/ Merge(1)
    \/ Build(1)
    \/ Publish(1)
    \/ Run(1)
    \/ StartStage
    \/ Merge(2)
    \/ Build(2)
    \/ Publish(2)
    \/ Run(2)
    \/ Exit(2)

ReSpec == ReInit /\ [][ReNext]_vars

\* Both runs are over: the `all` invocation stands at the end of its Run
\* stage and the fourth of the separate invocations has ended.
BothRun ==
    /\ proc[1].pc \in {"report", "cleanup"}
    /\ proc[2].pc = "done"
    /\ Len(proc[2].hist) = Len(ReCommands)

Entries(items) == {items[i] : i \in 1..Len(items)}

\* C9: with persistence enabled, merge, build, publish and run as four
\* invocations on one state file, with the same inputs and collaborator
\* results, give each stage the same input fields and leave the same
\* persisted state fields and the same final result code as one `all`
\* invocation does up to the end of its Run stage.
C9_StageReentry ==
    BothRun
    => /\ \A n \in {"merge", "build", "publish", "run"} :
            proc[2].seen[n] = proc[1].seen[n]
       /\ disk[2].hasState = disk[1].hasState
       /\ Entries(disk[2].state) = Entries(disk[1].state)
       /\ proc[2].exitcode = ExitStatus(proc[1].retcode)


(***************************************************************************)
(* Stub mode: one stage invoked again and again with the same stub value   *)
(* on the same rc file, persistence enabled, the collaborators doing the   *)
(* same every time.                                                        *)
(***************************************************************************)
StubArgs ==
    {[cmd |-> c, junit |-> j, test |-> t, wait |-> PyFalse, nrefs |-> 0] :
        c \in StageNames, j \in {None, "/junit"}, t \in {Int0, Int1, Int2}}

StubScripts ==
    {[n \in StageNames |-> IF n = "merge" THEN om ELSE Quiet] :
        om \in {Quiet, Outcome(Fail("open", 0), 0, 0, <<>>, 0)}}

StubFiles ==
    {RcFile(pb, None, FALSE, <<>>) : pb \in {None, "publisher:cp"}}
    \cup {RcFile(pb, None, TRUE, PriorState(HeadName(1))) :
            pb \in {None, "publisher:cp"}}

StubInit ==
    /\ proc = [p \in ProcIds |-> IdleProc]
    /\ \E file \in StubFiles : disk = [f \in FileIds |-> file]
    /\ \E args \in StubArgs, out \in StubScripts :
         env = [scripted |-> TRUE, out |-> out, args |-> args]

StubStart ==
    /\ Len(proc[1].hist) < MaxRuns
    /\ Invoke(1, MkArgv(env.args.cmd,
                        Flags(env.args.junit, PyTrue, env.args.test,
                              env.args.wait, PyFalse),
                        0, 0, 0, 1))

StubNext ==
    \/ StubStart
    \/ Step(1)

StubSpec == StubInit /\ [][StubNext]_vars

NoRaise(p) ==
    /\ ~InLog(proc[p].log, <<"raise", "Exception", 0>>)
    /\ ~InLog(proc[p].log, <<"raise", "SystemExit", 0>>)

\* The process in slot p is an `all` invocation in stub mode with stub
\* value n and without the wait flag that has ended, no stage having raised.
StubAllEnded(p, n) ==
    /\ AllEnded(p)
    /\ proc[p].cfg["test"] = IntVal(n)
    /\ Falsy(proc[p].cfg["wait"])
    /\ NoRaise(p)

\* C11: an `all` invocation in stub mode with stub value n and without the
\* wait flag, in which no stage raises, ends with process exit code n and
\* never invokes Report.
C11_StubExitCode ==
    \A n \in Codes :
      StubAllEnded(1, n)
        => /\ proc[1].exitcode = n
           /\ ~InLog(proc[1].log, <<"start", "report", 0>>)

\* The process in slot p has run a non-stub Merge to its final save: no
\* step raised and every merge-ref returned 0.
MergeCompleted(p) ==
    /\ proc[p].argv.cmd = "merge"
    /\ proc[p].cfg["test"] = None
    /\ InLog(proc[p].log, <<"end", "merge", 0>>)
    /\ NoRaise(p)
    /\ \A c \in Codes \ {0} : ~InLog(proc[p].log, <<"ret", "merge_git_ref", c>>)

\* The tags of the kinds of change process m was given, each kind once.
KindTags(m) ==
    (IF m.merge_ref # <<>> THEN <<"[git]">> ELSE <<>>) \o PatchTag(m) \o PwTag(m)

\* C12: a non-stub Merge that completes records uid `[baseline]` when no
\* merge-ref, local patch or patchwork patch was applied, and otherwise the
\* tags of the kinds of change applied, each kind once, joined by single
\* spaces in the order `[git]`, `[local patch]`, `[patchwork]`, for any
\* number of merge-refs and patches of each kind.
C12_MergeUid ==
    MergeCompleted(1)
      => proc[1].cfg["uid"] = IF KindTags(proc[1]) = <<>> THEN "[baseline]"
                              ELSE JoinTags(KindTags(proc[1]))

\* Entry i of a log was made during stage name: the last stage started
\* before it is name.
During(log, i, name) ==
    \E j \in 1..(i - 1) :
      /\ log[j] = <<"start", name, 0>>
      /\ \A k \in (j + 1)..(i - 1) : log[k][1] # "start"

\* The log shows a failed Merge: a merge step raised, or a merge-ref
\* returned a non-zero result.
MergeFailed(log) ==
    \E i \in 1..Len(log) :
      /\ During(log, i, "merge")
      /\ \/ log[i] = <<"raise", "Exception", 0>>
         \/ log[i][1] = "ret" /\ log[i][2] = "merge_git_ref" /\ log[i][3] # 0

\* C13: in an `all` invocation, if the Merge stage fails (a merge step
\* raises an exception, or a merge-ref returns a non-zero merge result),
\* Build, Publish and Run are not executed in that invocation, with
\* structured reporting enabled or disabled.
C13_MergeFatal ==
    proc[1].argv.cmd = "all" /\ MergeFailed(proc[1].log)
      => \A n \in {"build", "publish", "run"} :
           ~InLog(proc[1].log, <<"start", n, 0>>)

\* The step is stage name of the process in slot p, without the stub, and
\* an exception is raised in it.
StageRaised(p, name) ==
    /\ proc[p].pc = name
    /\ proc[p].cfg["test"] = None
    /\ InLog(NewLog(p), <<"raise", "Exception", 0>>)

\* After the step, field k of the State of the process in slot p is v, and
\* with persistence enabled so is the persisted entry.
Logged(p, k, v) ==
    /\ proc'[p].cfg[k] = v
    /\ ~Falsy(proc'[p].cfg["state"])
         => Entry(disk'[proc[p].argv.rc].state, k) = <<v>>

\* C14: whenever a non-stub Merge or Build stage ends by an exception
\* raised at any step of the stage (base checkout, a merge step, source
\* cleaning, packaging, artifact renaming), the stage's log path (mergelog
\* for Merge, buildlog for Build) has been written to the State, and with
\* persistence enabled to the persisted state section, before the exception
\* leaves the stage.
C14_LogBeforeRaise ==
    [][/\ StageRaised(1, "merge") => Logged(1, "mergelog", MergeLogPath)
       /\ StageRaised(1, "build") => Logged(1, "buildlog", BuildLogPath)]_vars

\* The URL fields Publish writes, lines 297 and 312-314.
UrlKeys == {"buildurl", "cfgurl", "infourl"}

\* C15: when Publish is invoked and the State holds no tarball path, the
\* invocation ends at once with a fatal error: no URL field is written, no
\* later stage of the same invocation executes, and the outcome is not
\* recorded as a failed stage record, with structured reporting enabled or
\* disabled and in stub mode or not.
C15_PublishUsageError ==
    [][proc[1].pc = "publish" /\ Falsy(proc[1].cfg["tarpkg"])
         => /\ proc'[1].pc = "done"
            /\ proc'[1].exc # "none"
            /\ proc'[1].exitcode # 0
            /\ \A k \in UrlKeys : proc'[1].cfg[k] = proc[1].cfg[k]
            /\ disk' = disk
            /\ proc'[1].testcases = proc[1].testcases]_vars

\* The result code the body of the stage of this step left: the last code
\* a primary run or a merge returned in it, else the one it found.
BodyCode(p) ==
    LET rets == SelectSeq(NewLog(p), LAMBDA e : e[1] = "ret"
                                        /\ e[2] \in {"run", "merge_git_ref"})
    IN  IF rets = <<>> THEN proc[p].retcode ELSE rets[Len(rets)][3]

\* The step is a stage of the process in slot p, structured reporting
\* disabled, in which an exception of the given kind is raised.
RaisedUnreported(p, kind) ==
    /\ proc[p].pc \in StageNames
    /\ Falsy(proc[p].cfg["junit"])
    /\ InLog(NewLog(p), <<"raise", kind, 0>>)

\* C16: with structured reporting disabled, an exception raised by a stage
\* propagates unchanged out of the harness and out of `all`: no later stage
\* of the same invocation runs, no record is appended, and the harness
\* itself does not change the shared result code.
C16_HarnessDisabled ==
    [][\A kind \in {"Exception", "SystemExit"} :
         RaisedUnreported(1, kind)
           => /\ proc'[1].exc = kind
              /\ proc'[1].pc = "done"
              /\ NewLog(1)[Len(NewLog(1))] = <<"raise", kind, 0>>
              /\ proc'[1].testcases = proc[1].testcases
              /\ proc'[1].retcode = BodyCode(1)]_vars

\* An `all` invocation without structured reporting has ended in its Run
\* stage by an exception raised after the primary run returned 2: Report
\* and Cleanup never started, there is no record, the result code is 2.
C16_Witness ==
    /\ AllEnded(1)
    /\ Falsy(proc[1].cfg["junit"])
    /\ proc[1].exc = "Exception"
    /\ Starts(proc[1].log) = <<"merge", "build", "publish", "run">>
    /\ InLog(proc[1].log, <<"ret", "run", 2>>)
    /\ proc[1].log[Len(proc[1].log)] = <<"raise", "Exception", 0>>
    /\ proc[1].testcases = <<>>
    /\ proc[1].retcode = 2

\* C17: when the persistence flag is not enabled, no stage operation
\* (merge, build, publish, run, report, cleanup, alone or in `all`) changes
\* the state file: stage updates go to the in-memory State only, and
\* Cleanup does not remove an existing state section.
C17_ReadOnlyFile ==
    [][proc[1].pc \in StageNames /\ Falsy(proc[1].cfg["state"])
         => disk' = disk]_vars


(***************************************************************************)
(* The store, one writer: invocations of any command, one after the other, *)
(* on an rc file that holds every kind of section.                         *)
(***************************************************************************)
StoreConfigs ==
    {<<>>, << <<"baserepo", "git://base">>, <<"uid", "from config">> >>}

StoreFiles ==
    {[RcFile("publisher:cp", "reporter:items", hs, IF hs THEN PriorState(HeadName(1)) ELSE <<>>)
        EXCEPT !.config = cs, !.merges = ms] :
        hs \in BOOLEAN, cs \in StoreConfigs, ms \in {<<>>, <<RefSource(3)>>}}

StoreArgvs ==
    {MkArgv(c, Flags(None, s, t, PyFalse, PyFalse), 0, 0, 0, 1) :
        c \in {"all", "merge", "run", "report", "cleanup"}, s \in Bools,
        t \in {None, Int0}}

StoreScripts ==
    {[n \in StageNames |-> IF n = "run" THEN or ELSE Quiet] :
        or \in {Quiet, Outcome(NoFail, 0, 1, JobList(1), 1)}}

StoreInit ==
    /\ proc = [p \in ProcIds |-> IdleProc]
    /\ \E file \in StoreFiles : disk = [f \in FileIds |-> file]
    /\ \E out \in StoreScripts :
         env = [scripted |-> TRUE, out |-> out, args |-> NoArgs]

\* The next invocation, when the one before has ended.
StoreStart ==
    /\ Len(proc[1].hist) < MaxRuns
    /\ \E argv \in StoreArgvs : Invoke(1, argv)

StoreNext ==
    \/ StoreStart
    \/ Step(1)

StoreSpec == StoreInit /\ [][StoreNext]_vars

\* The sections of an rc file other than 'state'.
OtherSections(file) ==
    <<file.config, file.publisher, file.runner, file.reporter, file.merges>>

\* The process in slot p has ended and the last thing it did was a Cleanup
\* with persistence enabled.
CleanedUp(p) ==
    /\ proc[p].pc = "done"
    /\ ~Falsy(proc[p].cfg["state"])
    /\ proc[p].log[Len(proc[p].log)] = <<"end", "cleanup", 0>>

\* Process m, loaded from file with persistence enabled, holds no value of
\* a persisted state: every field is what the command line and the config
\* section give, the paths and collections are those of an empty state.
NoStateValue(m, file) ==
    /\ \A k \in Keys \ DerivedKeys :
         m.cfg[k] = Precedence(m.argv, [file EXCEPT !.hasState = FALSE], k)
    /\ \A k \in PathKeys \ {"workdir"} : m.cfg[k] = None
    /\ m.cfg["workdir"] = TmpDir(Len(m.hist))
    /\ m.jobs = {}
    /\ m.mergerepos = <<>> /\ m.mergeheads = <<>>
    /\ m.localpatches = <<>> /\ m.patchworks = <<>>

\* C18: whatever stages and invocations a single writer runs, the config,
\* publisher, runner, reporter and merge sections of the file hold the same
\* keys and values as before; Cleanup with persistence enabled removes the
\* whole state section and nothing else, so that a following load with
\* persistence enabled takes no value from persisted state.
C18_OnlyStateWritten ==
    [][/\ \A f \in FileIds : OtherSections(disk'[f]) = OtherSections(disk[f])
       /\ proc[1].pc = "cleanup" /\ ~Falsy(proc[1].cfg["state"])
            => /\ ~disk'[1].hasState
               /\ disk'[1].state = <<>>
       /\ CleanedUp(1) /\ proc'[1].pc # "done" /\ ~Falsy(proc'[1].cfg["state"])
            => NoStateValue(proc'[1], disk[1])]_vars

\* A Merge with persistence enabled has written a state section beside a
\* config and a merge section, a Cleanup with persistence enabled has ended
\* and the next invocation, persistence enabled, has loaded its State.
C18_Witness ==
    /\ Len(proc[1].hist) = 1
    /\ proc[1].hist[1].cmd = "all"
    /\ proc[1].hist[1].wrote # <<>>
    /\ ~proc[1].hist[1].hasState
    /\ proc[1].pc = "run"
    /\ ~Falsy(proc[1].cfg["state"])
    /\ disk[1].config # <<>> /\ disk[1].merges # <<>>
    /\ proc[1].cfg["uid"] = "from config"
    /\ Len(proc[1].log) > 1
    /\ proc[1].log[Len(proc[1].log) - 1] = <<"end", "cleanup", 0>>

\* The stages the records of process m name, in their order.
Recorded(m) == [i \in 1..Len(m.testcases) |-> m.testcases[i].name]

\* C19: with structured reporting enabled, at process exit the record list
\* holds exactly one record for each stage that was invoked in the process
\* (merge, build, publish, run, report and cleanup alike), in the order the
\* stages were invoked, whether each stage passed or failed.
C19_OneRecordPerStage ==
    /\ proc[1].pc = "done"
    /\ proc[1].exc = "none"
    /\ ~Falsy(proc[1].cfg["junit"])
    => /\ Recorded(proc[1]) = Starts(proc[1].log)
       /\ proc[1].xml = proc[1].testcases

\* The step is a Build of the process in slot p in stub mode, persistence
\* enabled.
BuildStubStep(p) ==
    /\ proc[p].pc = "build"
    /\ proc[p].cfg["test"] # None
    /\ ~Falsy(proc[p].cfg["state"])

\* The step leaves every persisted entry but that of key k as it was, and
\* calls no collaborator.
OnlyKey(p, k) ==
    /\ \A k2 \in Keys \ {k} :
         Entry(disk'[proc[p].argv.rc].state, k2)
           = Entry(disk[proc[p].argv.rc].state, k2)
    /\ \A i \in 1..Len(NewLog(p)) : NewLog(p)[i][1] # "call"

\* The non-zero half of C20: buildlog is persisted with the value "stub"
\* and no other key.
BuildStubNonZero(p) ==
    proc[p].cfg["test"] # Int0
      => /\ Entry(disk'[proc[p].argv.rc].state, "buildlog") = <<"stub">>
         /\ OnlyKey(p, "buildlog")

\* C20 as stated: a Build in stub mode with stub value 0 persists buildhead
\* and no other key (in particular no buildlog); with a non-zero stub value
\* it persists buildlog with the value "stub" and no other key; in both
\* cases no build collaborator operation (clean, package) is called.
C20_BuildStubOutputs ==
    [][BuildStubStep(1)
         => /\ proc[1].cfg["test"] = Int0
                 => /\ HasOption(disk'[1].state, "buildhead")
                    /\ OnlyKey(1, "buildhead")
            /\ BuildStubNonZero(1)]_vars

\* C20 amended: with stub value 0 the Build stub persists the buildhead the
\* State holds and no other key, and persists nothing when the State holds
\* no buildhead (a null value is not persisted); the rest as stated.
C20_BuildStubAmended ==
    [][BuildStubStep(1)
         => /\ proc[1].cfg["test"] = Int0
                 => /\ Entry(disk'[1].state, "buildhead")
                         = IF proc[1].cfg["buildhead"] # None
                           THEN <<Str(proc[1].cfg["buildhead"])>>
                           ELSE Entry(disk[1].state, "buildhead")
                    /\ proc[1].cfg["buildhead"] = None
                         => ~HasOption(disk'[1].state, "buildhead")
                    /\ OnlyKey(1, "buildhead")
            /\ BuildStubNonZero(1)]_vars

\* A Build in stub mode with stub value 0 and persistence enabled has ended
\* in a process whose State holds no buildhead: the state section is there
\* and holds neither buildhead nor buildlog.
C20_Witness ==
    /\ proc[1].argv.cmd = "all"
    /\ proc[1].pc = "publish"
    /\ proc[1].log[Len(proc[1].log)] = <<"end", "build", 0>>
    /\ proc[1].cfg["test"] = Int0
    /\ ~Falsy(proc[1].cfg["state"])
    /\ proc[1].cfg["buildhead"] = None
    /\ disk[1].hasState
    /\ ~HasOption(disk[1].state, "buildhead")
    /\ ~HasOption(disk[1].state, "buildlog")


(***************************************************************************)
(* Properties of the harness and of the Merge and Run stages.              *)
(***************************************************************************)
\* The step is a wrapped stage of the process in slot p, structured
\* reporting enabled.
WrappedStep(p) ==
    /\ proc[p].pc \in Decorated
    /\ ~Falsy(proc[p].cfg["junit"])

\* The result code the body of the stage of this step returned with: 0 when
\* a baseline run failed as well, else the code BodyCode finds.
ReturnCode(p) ==
    IF \E b \in Codes \ {0} : InLog(NewLog(p), <<"ret", "baserun", b>>)
    THEN 0 ELSE BodyCode(p)

\* C21: with structured reporting enabled, the record of a wrapped stage is
\* marked failed if and only if the stage raised an exception or the shared
\* result code is non-zero when the stage returns; a caught exception sets
\* the shared result code to 1; each record carries at most one failure
\* payload; a stage that returns normally with the shared code at 0 leaves
\* the code at 0 and its record passed.
C21_FailureMarking ==
    [][WrappedStep(1) =>
         LET raised == InLog(NewLog(1), <<"raise", "Exception", 0>>)
             rec == proc'[1].testcases[Len(proc'[1].testcases)]
         IN  /\ Len(proc'[1].testcases) = Len(proc[1].testcases) + 1
             /\ SubSeq(proc'[1].testcases, 1, Len(proc[1].testcases))
                  = proc[1].testcases
             /\ rec.name = proc[1].pc
             /\ rec.failures \in {0, 1}
             /\ rec.failures = 1 <=> (raised \/ proc'[1].retcode # 0)
             /\ rec.exception = raised
             /\ raised => proc'[1].retcode = 1 /\ proc'[1].exc = "none"
             /\ ~raised => proc'[1].retcode = ReturnCode(1)
             /\ ~raised /\ ReturnCode(1) = 0
                  => proc'[1].retcode = 0 /\ rec.failures = 0]_vars

\* The records hold a stage failed by an exception the harness caught, then
\* a stage that returned normally and is failed by the result code left at
\* 1, each with one failure payload.
C21_Witness ==
    /\ ~Falsy(proc[1].cfg["junit"])
    /\ Len(proc[1].testcases) >= 2
    /\ proc[1].testcases[1] = [name |-> "merge", failures |-> 1, exception |-> TRUE]
    /\ proc[1].testcases[2] = [name |-> "build", failures |-> 1, exception |-> FALSE]
    /\ proc[1].retcode = 1

\* The step is the Merge of the process in slot p, without the stub.
MergeStep(p) == proc[p].pc = "merge" /\ proc[p].cfg["test"] = None

\* The indices of the calls of collaborator operation e in a log, in the
\* order of the calls.
CallsOf(log, e) ==
    LET sel == SelectSeq(log, LAMBDA x : x[1] = "call" /\ x[2] = e)
    IN  [i \in 1..Len(sel) |-> sel[i][3]]

\* The number of entries x among the first n of a log.
CountBefore(log, n, x) == Cardinality({i \in 1..(n - 1) : log[i] = x})

\* The number of calls of e among the first n entries of a log.
CallsBefore(log, n, e) ==
    Cardinality({i \in 1..(n - 1) : log[i][1] = "call" /\ log[i][2] = e})

\* Key k of the State and of the persisted state is left as it was.
Untouched(p, k) ==
    /\ proc'[p].cfg[k] = proc[p].cfg[k]
    /\ Entry(disk'[proc[p].argv.rc].state, k)
         = Entry(disk[proc[p].argv.rc].state, k)

\* C22: in a non-stub Merge, merge-refs are merged in their given order, no
\* local patch is applied before every merge-ref has merged with result 0,
\* and no patchwork patch is applied before every local patch has been
\* applied; after the first merge-ref that returns a non-zero result no
\* further merge-ref, local patch or patchwork patch is attempted, the
\* shared result code is that result, and uid, buildhead and buildinfo are
\* not written.
C22_MergeOrder ==
    [][MergeStep(1) =>
         LET log == NewLog(1)
             refs == CallsOf(log, "merge_git_ref")
         IN  /\ Len(refs) <= Len(proc[1].merge_ref)
             /\ \A i \in 1..Len(refs) : refs[i] = i - 1
             /\ CallsOf(log, "merge_patch_file")
                  \in {[i \in 1..n |-> i - 1] : n \in 0..Len(proc[1].patchlist)}
             /\ CallsOf(log, "merge_patchwork_patch")
                  \in {[i \in 1..n |-> i - 1] : n \in 0..Len(proc[1].pw)}
             /\ \A j \in 1..Len(log) :
                  /\ log[j][1] = "call" /\ log[j][2] = "merge_patch_file"
                       => CountBefore(log, j, <<"ret", "merge_git_ref", 0>>)
                            = Len(proc[1].merge_ref)
                  /\ log[j][1] = "call" /\ log[j][2] = "merge_patchwork_patch"
                       => /\ CallsBefore(log, j, "merge_patch_file")
                               = Len(proc[1].patchlist)
                          /\ CountBefore(log, j, <<"ret", "merge_git_ref", 0>>)
                               = Len(proc[1].merge_ref)
                  /\ log[j][1] = "ret" /\ log[j][2] = "merge_git_ref"
                     /\ log[j][3] # 0
                       => /\ \A k \in (j + 1)..Len(log) : log[k][1] # "call"
                          /\ proc'[1].retcode = log[j][3]
                          /\ \A key \in {"uid", "buildhead", "buildinfo"} :
                               Untouched(1, key)]_vars

\* A Merge of two merge-refs and a local patch has ended after its first
\* merge-ref returned 2: the second was not attempted, no patch was
\* applied, the result code is 2 and there is no uid.
C22_Witness ==
    /\ proc[1].argv.cmd = "merge"
    /\ proc[1].pc = "exit"
    /\ Len(proc[1].merge_ref) = 2
    /\ proc[1].patchlist # <<>>
    /\ InLog(proc[1].log, <<"ret", "merge_git_ref", 2>>)
    /\ CallsOf(proc[1].log, "merge_git_ref") = <<0>>
    /\ CallsOf(proc[1].log, "merge_patch_file") = <<>>
    /\ proc[1].retcode = 2
    /\ proc[1].cfg["uid"] = None

\* C23: for every merge-ref i processed by Merge, the recorded mergerepo_i
\* is the source of merge-ref i and the recorded mergehead_i is the head of
\* the tree immediately before merge-ref i was merged, that is the base
\* head for i = 0 and the head produced by merging refs 0..i-1 for i > 0;
\* both entries are written before the merge of ref i is attempted.
C23_PreMergeHead ==
    [][MergeStep(1) =>
         \A i \in 0..(Len(proc[1].merge_ref) - 1) :
           InLog(NewLog(1), <<"call", "merge_git_ref", i>>)
             => /\ Logged(1, FamilyKey("mergerepo", i), proc[1].merge_ref[i + 1])
                /\ Logged(1, FamilyKey("mergehead", i), HeadName(i))]_vars


(***************************************************************************)
(* Runs on one state file: `run` invoked again and again with persistence  *)
(* enabled on the state file an earlier merge, build and publish left, the *)
(* runner submitting any number of jobs each time, and one more invocation *)
(* that loads what the last Run left.                                      *)
(***************************************************************************)
JobsFiles ==
    {RcFile("publisher:cp", None, TRUE, PriorState(h)) :
        h \in {HeadName(0), HeadName(1)}}

JobsArgv == MkArgv("run", Flags(None, PyTrue, None, PyFalse, PyFalse), 0, 0, 0, 1)

JobsInit ==
    /\ proc = [p \in ProcIds |-> IdleProc]
    /\ \E file \in JobsFiles : disk = [f \in FileIds |-> file]
    /\ env = Free

JobsStart ==
    /\ Len(proc[1].hist) <= MaxRuns
    /\ Invoke(1, JobsArgv)

JobsRun ==
    /\ Len(proc[1].hist) < MaxRuns
    /\ Run(1)

JobsNext ==
    \/ JobsStart
    \/ JobsRun
    \/ Exit(1)

JobsSpec == JobsInit /\ [][JobsNext]_vars

\* The jobid_* entries of a state section.
JobEntries(items) ==
    {<<k, GetOption(items, k)>> : k \in {x \in FamilyKeys("jobid") : HasOption(items, x)}}

\* The step is a Run of the process in slot p, without the stub and with
\* persistence enabled, that completes.
RunCompleted(p) ==
    /\ proc[p].pc = "run"
    /\ proc[p].cfg["test"] = None
    /\ ~Falsy(proc[p].cfg["state"])
    /\ InLog(NewLog(p), <<"end", "run", 0>>)
    /\ ~InLog(NewLog(p), <<"raise", "Exception", 0>>)

\* The step starts a process in slot p, persistence enabled, after one that
\* ended with a completed Run.
LoadAfterRun(p) ==
    /\ proc[p].pc = "done"
    /\ proc[p].log[Len(proc[p].log)] = <<"end", "run", 0>>
    /\ proc'[p].pc # "done"
    /\ ~Falsy(proc'[p].cfg["state"])

\* C24: after a non-stub Run completes with persistence enabled, the
\* persisted jobid_* entries are exactly the job identifiers that Run
\* submitted, with indices following submission order, and a following
\* load yields a jobs value containing exactly those identifiers, also
\* when an earlier Run on the same state file had persisted more job
\* identifiers and no Cleanup ran in between.
C24_JobEntries ==
    [][/\ RunCompleted(1)
            => LET n == Cardinality(proc'[1].jobs)
               IN  /\ proc'[1].jobs = {JobId(i) : i \in 0..(n - 1)}
                   /\ JobEntries(disk'[1].state)
                        = {<<FamilyKey("jobid", i), JobId(i)>> : i \in 0..(n - 1)}
       /\ LoadAfterRun(1) => proc'[1].jobs = proc[1].jobs]_vars


(***************************************************************************)
(* Two writers: two invocations on the same rc file, each loading it when  *)
(* it starts and then calling save_state, the calls of the two interleaved *)
(* in any order.  Nothing locks the file.                                  *)
(***************************************************************************)
RaceUpdates ==
    {<< <<"buildurl", "new">> >>, << <<"retcode", Int1>> >>,
     << <<"buildinfo", None>>, <<"uid", "[git]">> >>}

RaceStart(p) ==
    /\ proc[p].pc = "idle"
    /\ \E argv \in SaveArgvs : Invoke(p, argv)

RaceSave(p) ==
    /\ proc[p].pc \notin {"idle", "done"}
    /\ Len(proc[p].log) <= MaxSaves
    /\ \E upd \in RaceUpdates :
         Saved(p, upd,
               save_state(Ev([m |-> proc[p], file |-> disk[proc[p].argv.rc]],
                             "save_state", 0),
                          upd))

RaceNext ==
    \/ RaceStart(1)
    \/ RaceStart(2)
    \/ RaceSave(1)
    \/ RaceSave(2)

RaceSpec == SaveInit /\ [][RaceNext]_vars

\* The rc file as the process in slot p would write it: its view.
View(p) == WriteFile(proc[p].parser)

\* C25: each file write replaces the whole file with the writing
\* invocation's own view (the sections it loaded at start plus its own
\* persisted updates), whatever another invocation has written meanwhile,
\* so that the file equals the view of the invocation that wrote last and
\* a key only the other invocation persisted after the writer loaded the
\* file is lost; a writer whose view is the file as it is (no other
\* invocation wrote since it loaded: a single writer) loses no persisted
\* key.
C25_LastWriteWins ==
    [][\A p \in ProcIds :
         SaveStep(p) =>
           /\ disk'[1] = WriteFile(proc'[p].parser)
           /\ \A k \in Keys :
                Entry(disk'[1].state, k)
                  = IF HasOption(proc'[p].upd, k)
                       /\ GetOption(proc'[p].upd, k) # None
                    THEN <<Str(GetOption(proc'[p].upd, k))>>
                    ELSE Entry(View(p).state, k)
           /\ View(p) = disk[1]
                => \A k \in Keys :
                     HasOption(disk[1].state, k) => HasOption(disk'[1].state, k)]_vars

\* Both invocations have written, the second one last: the file is its
\* view, and a key the first one persisted after the second had loaded the
\* file is in the first one's State and not in the file.
C25_Witness ==
    /\ proc[1].wrote # <<>> /\ proc[2].wrote # <<>>
    /\ disk[1] = View(2)
    /\ disk[1] # View(1)
    /\ \E i \in 1..Len(proc[1].wrote) :
         /\ ~HasOption(disk[1].state, proc[1].wrote[i][1])
         /\ HasOption(View(1).state, proc[1].wrote[i][1])

=============================================================================
